---------------------------- MODULE Spec2Model ----------------------------
(***************************************************************************)
(* Verification model of the secondary-index subsystem of acebase          *)
(* (src/src/data-index.js and the B+ tree sources it uses).                *)
(*                                                                         *)
(* The module holds several specifications over one set of variables:      *)
(*   SpecLock   the per-index reader/writer lock (DataIndex._lock)         *)
(*   Spec       queries, counts and record updates of one index running    *)
(*              concurrently over the lock, the query cache and the tree   *)
(*   SpecBuild  DataIndex.build: the build, batch and merge files, the     *)
(*              process stopping and build() run again                     *)
(*   SpecArray  ArrayIndex: array updates and 'contains' queries           *)
(*   SpecFT     FullTextIndex: text updates, word, phrase and OR queries   *)
(* Each specification leaves the variables of the others untouched.        *)
(***************************************************************************)
EXTENDS Integers, Sequences, FiniteSets, TLC

(***************************************************************************)
(* Bounds of the model                                                     *)
(***************************************************************************)
\* number of _lock calls made in a behaviour of SpecLock
MaxLocks == 5
\* number of handleRecordUpdate calls made in a behaviour of Spec
MaxUpdates == 2
\* number of tree transactions that fail in a behaviour of Spec
MaxFailures == 1
\* number of times the process stops in a behaviour of SpecBuild
MaxCrashes == 1
\* largest number of values held in memory per batch (100000 in the source)
MaxBatchValues == 3
\* the keys of SpecBuild are 1..MaxKey
MaxKey == 2
\* number of ArrayIndex.handleRecordUpdate calls in a behaviour of SpecArray
MaxArrayUpdates == 3
\* length of an indexed array
MaxArrayLen == 2
\* number of FullTextIndex.handleRecordUpdate calls in a behaviour of SpecFT
MaxFtUpdates == 2
\* number of FullTextIndex.query calls in a behaviour of SpecFT
MaxFtQueries == 2
\* number of words of an indexed text
MaxTextLen == 3
\* number of words of a query part
MaxPhraseLen == 2
\* SpecQuery: number of child nodes; node n has path n, paths compare as
\* the numbers do
MaxNodes == 3
\* SpecQuery: largest property value of a node
MaxNodeVal == 2

(***************************************************************************)
(* Inputs                                                                  *)
(***************************************************************************)
\* concurrent callers of one index
Procs == {"p1", "p2"}
\* the child records under the index path
Recs == {"r1", "r2"}
\* values of the indexed key; Null is a record, or a key, that does not exist
Vals == {"x", "y"}
Null == "null"
\* create(maxEntries) without the argument
NotGiven == -1
\* the operators the model queries with (a subset of validOperators)
QueryOps == {"=="}
\* SpecWrite: the property keys of the written node, and absence of a property
WriteKeys == {"k1", "k2"}
NoProp == "none"
\* SpecBuilder: the keys added to a tree builder
BuilderKeys == {"a", "b"}
\* SpecGet: _readNode gives null
NoRecord == [exists |-> FALSE]

(***************************************************************************)
(* State                                                                   *)
(***************************************************************************)
VARIABLES
    lockState,   \* this._lockState : [isLocked, forWriting]
    lockQueue,   \* this._lockQueue : pending lock objects, oldest first
    lkHolders,   \* SpecLock: lock objects granted and not yet released
    lkGranted,   \* SpecLock: history, every lock object granted so far
    lkNext,      \* SpecLock: number of the next _lock call
    store,       \* Spec: the indexed key's value of each record in the primary store
    tree,        \* Spec: the index tree, number of values per (key, record pointer)
    cache,       \* Spec: this._cache, per (op, val) the cached entries
    proc,        \* Spec: per caller, its position and the locals of its operation
    updates,     \* Spec: number of handleRecordUpdate calls so far
    failures,    \* Spec: number of failed transactions so far
    bKey,        \* SpecBuild: the indexed key's value of each record in storage
    buildFile,   \* SpecBuild: <index>.build, entries with their processed flag
    runFiles,    \* SpecBuild: <index>.build.<batchNr>, the sorted batch files
    mergeFile,   \* SpecBuild: <index>.build.merge
    indexFile,   \* SpecBuild: the index file, number of values per record pointer
    bmem,        \* SpecBuild: position and locals of the running build() call
    crashes,     \* SpecBuild: number of times the process has stopped
    arrays,      \* SpecArray: the indexed array of each record in the primary store
    arrayUnique, \* SpecArray: whether the tree keeps one value per record pointer
    arrayResult, \* SpecArray: the result of the last 'contains' query
    arrayUpdates,\* SpecArray: number of ArrayIndex.handleRecordUpdate calls so far
    ftTexts,     \* SpecFT: the words of the indexed text of each record
    ftTree,      \* SpecFT: the tree, per (word, record pointer) its _occurs_ metadata
    ftCache,     \* SpecFT: this._cache under 'fulltext:contains', per query part
    ftParsed,    \* SpecFT: cached values whose _occurs_ is an array already
    ftResult,    \* SpecFT: the last query and what it returned
    ftUpdates,   \* SpecFT: number of FullTextIndex.handleRecordUpdate calls so far
    ftQueries,   \* SpecFT: number of FullTextIndex.query calls so far
    takeLeaves,  \* SpecTake: the leaves of the tree, first to last, each a list of entries
    takeResult,  \* SpecTake: the last take call and what it returned
    qVals,       \* SpecQuery: the child nodes of the queried path, per node its properties
    qIndex,      \* SpecQuery: whether a normal index on key a exists
    qResult,     \* SpecQuery: the last query and the paths it returned
    rpInput,     \* SpecPointer: the index path, and the wildcards and key of an indexed record
    rpStored,    \* SpecPointer: the record pointer as the build file holds it, <<>> before it is written
    rpParsed,    \* SpecPointer: what _parseRecordPointer made of the stored pointer
    wnInline,    \* SpecWrite: the value of the stored main node, per key its inline value
    wnRecords,   \* SpecWrite: the dedicated child records of the node, per key its value
    wnLast,      \* SpecWrite: the value and options of the last _writeNode call
    wnWrites,    \* SpecWrite: number of _writeNode calls so far
    cServed,     \* SpecCache: the last query of the client and where its result came from
    btUpdate,    \* SpecBatch: the old and the new array of the updated record
    btBatches,   \* SpecBatch: the _processTreeOperations calls of the update in call order, each with its position and operations
    btLog,       \* SpecBatch: history, the operations applied to the tree in order
    btFailures,  \* SpecBatch: number of failed transactions so far
    maxValues,   \* SpecBuild: the number of values held in memory per batch, the same in every build() of a behaviour
    idxOpen,     \* SpecHandle: this._idx.open, 0 when this._idx is null
    fdOpen,      \* SpecHandle: the index file descriptor is open
    hPc,         \* SpecHandle: the position of each operation that uses the tree handle
    hOps,        \* SpecHandle: number of operations started
    ftWordCache, \* SpecFT: the query words whose tree search DataIndex.query has cached under == or like
    upIndex,     \* SpecUpdate: the type and the includeKeys of the index
    upStored,    \* SpecUpdate: the value of the record in storage
    upLast,      \* SpecUpdate: the last handleRecordUpdate call and what it did
    exSliding,   \* SpecExpiry: _cacheTimeoutSettings.sliding
    exClock,     \* SpecExpiry: the time in ticks
    exEntry,     \* SpecExpiry: the entry of the cache for one (op, val)
    exTimers,    \* SpecExpiry: the pending timeouts, each with the entry that set it and the time it is due
    exPc,        \* SpecExpiry: the position of each query for (op, val)
    exNext,      \* SpecExpiry: number of the next cache entry
    exRemoved,   \* SpecExpiry: history, the last removal of an entry by a timeout
    maxEntriesPerNode, \* SpecLeaf: tree.maxEntriesPerNode
    uniqueKeys,  \* SpecLeaf: tree.uniqueKeys
    treeLeaves,  \* SpecLeaf: the leaves of the tree from left to right, each with its entries, the key that routes to it, its number and the numbers of prevLeaf and nextLeaf (0: null)
    leafThrown,  \* SpecLeaf: whether the last add has thrown
    crLength,    \* SpecCreate: the number of keys in the list of the builder, the keys being 1..crLength in sorted order
    crMaxEntries, \* SpecCreate: the maxEntries argument of create, NotGiven if absent
    crFillFactor, \* SpecCreate: builder.fillFactor
    crLeaves,    \* SpecCreate: the leaves created, first to last, each the list of its keys
    crNodes,     \* SpecCreate: the levels of nodes created, the parents of the leaves first; each node has entries (key, ltChild) and gtChild, a child being its number in the level below
    crPc,        \* SpecCreate: start, levels, done or thrown
    qsInput,     \* SpecSort: the array given to fastQuickSort, indexed from 0
    qsArr,       \* SpecSort: arr
    qsStack,     \* SpecSort: stack, each entry start, end, depth
    qsShell,     \* SpecSort: the locals of shellSortBound while it runs
    qsPc,        \* SpecSort: start, loop, partition, shell, shell_for, insertion or done
    qsPart,      \* SpecSort: the locals of the round of the loop and of inplaceQuickSortPartition while it runs
    qsI,         \* SpecSort: i of insertionSort
    mnStore,     \* SpecMonitor: the value of the filtered key of each child, Null for a child that does not exist
    mnMatched,   \* SpecMonitor: matchedPaths
    mnPending,   \* SpecMonitor: the child_changed callbacks whose promise has not resolved yet
    mnEvent,     \* SpecMonitor: the last event given to options.eventHandler, with whether its path was in matchedPaths when the event was made
    mnCalls,     \* SpecMonitor: number of notifications so far
    gnParent,    \* SpecGet: the record of the parent node as _readNode gives it, NoRecord if there is none; the node itself has no record
    gnLast,      \* SpecGet: the last call of getNode or getNodeInfo for a child key, and what it gave
    buUnique,    \* SpecBuilder: builder.uniqueKeys
    buList,      \* SpecBuilder: builder.list, per key the record pointers of its values in the order added, none for a key that is not in the list
    buThrown     \* SpecBuilder: whether the last add has thrown

lockVars == <<lockState, lockQueue>>
lkVars == <<lkHolders, lkGranted, lkNext>>
ixVars == <<store, tree, cache, proc, updates, failures>>
buildVars == <<bKey, buildFile, runFiles, mergeFile, indexFile, bmem, crashes>>
arrayVars == <<arrays, arrayUnique, arrayResult, arrayUpdates>>
ftVars == <<ftTexts, ftTree, ftCache, ftParsed, ftResult, ftUpdates, ftQueries>>
takeVars == <<takeLeaves, takeResult>>
queryVars == <<qVals, qIndex, qResult>>
pointerVars == <<rpInput, rpStored, rpParsed>>
writeVars == <<wnInline, wnRecords, wnLast, wnWrites>>
cacheVars == <<cServed>>
batchVars == <<btUpdate, btBatches, btLog, btFailures>>
capVars == <<maxValues>>
handleVars == <<idxOpen, fdOpen, hPc, hOps>>
ftWordVars == <<ftWordCache>>
updateVars == <<upIndex, upStored, upLast>>
expiryVars == <<exSliding, exClock, exEntry, exTimers, exPc, exNext, exRemoved>>
leafVars == <<maxEntriesPerNode, uniqueKeys, treeLeaves, leafThrown>>
createVars == <<crLength, crMaxEntries, crFillFactor, crLeaves, crNodes, crPc>>
sortVars == <<qsInput, qsArr, qsStack, qsShell, qsPc>>
sortLocalVars == <<qsPart, qsI>>
monitorVars == <<mnStore, mnMatched, mnPending, mnEvent, mnCalls>>
getVars == <<gnParent, gnLast>>
builderVars == <<buUnique, buList, buThrown>>

vars == <<lockState, lockQueue, lkHolders, lkGranted, lkNext,
          store, tree, cache, proc, updates, failures,
          bKey, buildFile, runFiles, mergeFile, indexFile, bmem, crashes,
          arrays, arrayUnique, arrayResult, arrayUpdates,
          ftTexts, ftTree, ftCache, ftParsed, ftResult, ftUpdates, ftQueries,
          takeLeaves, takeResult,
          qVals, qIndex, qResult,
          rpInput, rpStored, rpParsed,
          wnInline, wnRecords, wnLast, wnWrites,
          cServed,
          btUpdate, btBatches, btLog, btFailures,
          maxValues,
          idxOpen, fdOpen, hPc, hOps,
          ftWordCache,
          upIndex, upStored, upLast,
          exSliding, exClock, exEntry, exTimers, exPc, exNext, exRemoved,
          maxEntriesPerNode, uniqueKeys, treeLeaves, leafThrown,
          crLength, crMaxEntries, crFillFactor, crLeaves, crNodes, crPc,
          qsInput, qsArr, qsStack, qsShell, qsPc,
          qsPart, qsI,
          mnStore, mnMatched, mnPending, mnEvent, mnCalls,
          gnParent, gnLast,
          buUnique, buList, buThrown>>

\* what the actions of one specification leave alone
notLock == <<ixVars, buildVars, arrayVars, ftVars, takeVars, queryVars, pointerVars, writeVars, cacheVars, batchVars, capVars, handleVars, ftWordVars, updateVars, expiryVars, leafVars, createVars, sortVars, sortLocalVars, monitorVars, getVars, builderVars>>
notIndex == <<lkVars, buildVars, arrayVars, ftVars, takeVars, queryVars, pointerVars, writeVars, cacheVars, batchVars, capVars, handleVars, ftWordVars, updateVars, expiryVars, leafVars, createVars, sortVars, sortLocalVars, monitorVars, getVars, builderVars>>
notBuild == <<lockQueue, lkVars, ixVars, arrayVars, ftVars, takeVars, queryVars, pointerVars, writeVars, cacheVars, batchVars, capVars, handleVars, ftWordVars, updateVars, expiryVars, leafVars, createVars, sortVars, sortLocalVars, monitorVars, getVars, builderVars>>
notArray == <<lockVars, lkVars, store, proc, updates, failures, buildVars, ftVars, takeVars, queryVars, pointerVars, writeVars, cacheVars, batchVars, capVars, handleVars, ftWordVars, updateVars, expiryVars, leafVars, createVars, sortVars, sortLocalVars, monitorVars, getVars, builderVars>>
notFT == <<lockVars, lkVars, ixVars, buildVars, arrayVars, takeVars, queryVars, pointerVars, writeVars, cacheVars, batchVars, capVars, handleVars, updateVars, expiryVars, leafVars, createVars, sortVars, sortLocalVars, monitorVars, getVars, builderVars>>

(***************************************************************************)
(* DataIndex._lock                                                         *)
(***************************************************************************)
\* the value of _lockState.forWriting: undefined, or the mode of the grant
ModeOf(forWriting) == IF forWriting THEN "writing" ELSE "reading"

\* the lock state created on first use (isLocked: false)
InitLockState == [isLocked |-> FALSE, forWriting |-> "undefined"]

\* number of consecutive read requests at the head of queue q
RECURSIVE ReaderPrefixLen(_)
ReaderPrefixLen(q) ==
    IF q = <<>> \/ Head(q).forWriting THEN 0
    ELSE 1 + ReaderPrefixLen(Tail(q))

\* a release loop that does not stop at a queued writer but keeps collecting
\* the readers behind it
PendingSkipWriters(q) ==
    IF q = <<>> THEN <<>>
    ELSE IF Head(q).forWriting THEN <<Head(q)>>
    ELSE SelectSeq(q, LAMBDA l : ~l.forWriting)

\* a release loop that takes the request at the head only
PendingHeadOnly(q) == IF q = <<>> THEN <<>> ELSE <<Head(q)>>

\* a release loop that takes no request from the queue
PendingNone(q) == <<>>

\* release: the requests taken from the head of the queue (the `pending` list):
\* the writer at the head alone, or all consecutive readers at the head
Pending(q) ==
    IF q = <<>> THEN <<>>
    ELSE IF Head(q).forWriting THEN <<Head(q)>>
    ELSE SubSeq(q, 1, ReaderPrefixLen(q))

SeqRange(s) == {s[i] : i \in 1..Len(s)}

\* release: what is left of the queue after the shifts
Remaining(q) == SelectSeq(q, LAMBDA l : l \notin SeqRange(Pending(q)))

\* release: the lock state after the grants
ReleasedState(st, q) ==
    IF Pending(q) = <<>>
    THEN [isLocked |-> FALSE, forWriting |-> "undefined"]
    ELSE [st EXCEPT !.forWriting = ModeOf(Pending(q)[1].forWriting)]

\* _lock: the request is granted at once iff the lock is not marked locked
GrantedAtOnce(st, forWriting) == ~st.isLocked

\* _lock: the lock state after a grant without queueing
AcquiredState(forWriting) == [isLocked |-> TRUE, forWriting |-> ModeOf(forWriting)]

LockObj(id, forWriting, queued) ==
    [id |-> id, forWriting |-> forWriting, queued |-> queued]

(***************************************************************************)
(* The tree, the query cache and the locals of a running operation         *)
(***************************************************************************)
TreeKeys == Vals \X Recs

\* an index without entries
EmptyTree == [kr \in TreeKeys |-> 0]

\* no record exists yet
InitStore == [r \in Recs |-> Null]

\* this._cache = new Map(); an entry holds the entries of a search and, as
\* history, whether the tree has been mutated since that search
NoCache == [cached |-> FALSE]
CacheKeys == QueryOps \X Vals
EmptyCache == [ck \in CacheKeys |-> NoCache]

\* BinaryBPlusTree.search(op, val): the values of the entries whose key matches
Search(t, op, val) ==
    [kr \in TreeKeys |->
        IF (op = "==" /\ kr[1] = val) \/ (op = "!=" /\ kr[1] # val)
        THEN t[kr] ELSE 0]

\* a caller that runs no operation
IdleProc ==
    [pc |-> "idle", type |-> "normal", op |-> "==", val |-> Null,
     entries |-> EmptyTree, outdated |-> FALSE, stale |-> FALSE, partial |-> FALSE,
     ops |-> <<>>, done |-> <<>>, rebuilt |-> FALSE]

\* BinaryBPlusTree.TransactionOperation.remove / add
OpRemove(key, rp) == [type |-> "remove", key |-> key, rp |-> rp]
OpAdd(key, rp) == [type |-> "add", key |-> key, rp |-> rp]

\* add: one more value under the key; remove: one value less, if there is one
ApplyOp(t, o) ==
    IF o.type = "add"
    THEN [t EXCEPT ![<<o.key, o.rp>>] = @ + 1]
    ELSE [t EXCEPT ![<<o.key, o.rp>>] = IF @ > 0 THEN @ - 1 ELSE 0]

RECURSIVE ApplyOps(_, _)
ApplyOps(t, os) ==
    IF os = <<>> THEN t ELSE ApplyOps(ApplyOp(t, Head(os)), Tail(os))

\* _updateTree: the operations of one record update
UpdateOps(oldValue, newValue, rp) ==
    (IF oldValue # Null THEN <<OpRemove(oldValue, rp)>> ELSE <<>>)
    \o (IF newValue # Null THEN <<OpAdd(newValue, rp)>> ELSE <<>>)

\* the left-over operations are dropped after a rebuild
LeftOverDropped(ops) == FALSE

\* _processTreeOperations: operations are left over after the transaction
LeftOver(ops) == Len(ops) > 0

\* the position reached by a caller whose queued lock request is resolved
GrantedPc(pc) ==
    CASE pc = "q_wait" -> "q_locked"
      [] pc = "c_wait" -> "c_locked"
      [] pc = "u_wait" -> "u_locked"
      [] OTHER -> pc

\* the batch of a running update has been applied in part only
Partial(pr) ==
    /\ pr.pc \in {"u_wait", "u_locked", "u_rebuild"}
    /\ \E i \in 1..Len(pr.done) : pr.done[i] > 0
    /\ \E i \in 1..Len(pr.done) : pr.done[i] = 0

\* lock.release() called by p: the queue, the lock state and the callers it wakes
ReleaseBy(p, pr, others) ==
    /\ lockState' = ReleasedState(lockState, lockQueue)
    /\ lockQueue' = Remaining(lockQueue)
    /\ proc' = [q \in Procs |->
                  IF q = p THEN pr
                  ELSE IF \E l \in SeqRange(Pending(lockQueue)) : l.id = q
                       THEN [others[q] EXCEPT !.pc = GrantedPc(@)]
                       ELSE others[q]]

\* this._lock(forWriting) called by p, whose locals become pr; `got` and
\* `wait` are its positions when the lock is granted at once or queued
LockBy(p, pr, forWriting, got, wait) ==
    IF GrantedAtOnce(lockState, forWriting)
    THEN /\ lockState' = AcquiredState(forWriting)
         /\ lockQueue' = lockQueue
         /\ proc' = [proc EXCEPT ![p] = [pr EXCEPT !.pc = got]]
    ELSE /\ lockState' = lockState
         /\ lockQueue' = Append(lockQueue, LockObj(p, forWriting, TRUE))
         /\ proc' = [proc EXCEPT ![p] = [pr EXCEPT !.pc = wait]]

(***************************************************************************)
(* DataIndex.build: the files and the locals of the pipeline               *)
(***************************************************************************)
\* the child records in the order getAll visits them
BuildRecs == <<"r1", "r2", "r3">>
\* a record whose key has no indexable value (keyValue stays null)
NoKey == 0
\* batch numbers: a batch holds one entry of the build file at least
RunNrs == 1..(Len(BuildRecs) * (MaxCrashes + 1))

NoFile == [exists |-> FALSE, entries |-> <<>>]
EmptyIndexFile == [r \in SeqRange(BuildRecs) |-> 0]
\* null in entriesPerBatch
NoEntry == [key |-> NoKey, values |-> <<>>]
IdleBuild ==
    [pc |-> "idle", apos |-> 0, readPos |-> 0, batchNr |-> 1, map |-> <<>>,
     processedValues |-> 0, more |-> FALSE, epb |-> <<>>, rpos |-> <<>>,
     sorted |-> <<>>, error |-> "none", outcome |-> "pending"]

\* addIndexValue: the entry written to the build file, processed = 0
BuildEntry(key, rp) == [key |-> key, rp |-> rp, processed |-> FALSE]

\* readNext: index of the next entry after pos that is not flagged, 0 at EOF
NextUnprocessed(entries, pos) ==
    LET c == {i \in (pos + 1)..Len(entries) : ~entries[i].processed}
    IN  IF c = {} THEN 0 ELSE CHOOSE i \in c : \A j \in c : i <= j

\* the batch map of nextBatch: key -> values, in insertion order
MapHas(map, key) == \E i \in 1..Len(map) : map[i].key = key
MapPush(map, key, rp) ==
    [i \in 1..Len(map) |->
        IF map[i].key = key THEN [map[i] EXCEPT !.values = Append(@, rp)]
                            ELSE map[i]]
MapSet(map, key, rp) == Append(map, [key |-> key, values |-> <<rp>>])

\* quickSort: the comparator of nextBatch gives -1 when a is less than b
RECURSIVE PartitionFrom(_, _, _, _)
PartitionFrom(arr, i, end, splitIndex) ==
    IF i >= end THEN [arr |-> arr, splitIndex |-> splitIndex]
    ELSE IF arr[i] < arr[end]
    THEN PartitionFrom([arr EXCEPT ![splitIndex] = arr[i], ![i] = arr[splitIndex]],
                       i + 1, end, splitIndex + 1)
    ELSE PartitionFrom(arr, i + 1, end, splitIndex)
RECURSIVE recursiveSort(_, _, _)
recursiveSort(arr, start, end) ==
    IF end - start < 1 THEN arr
    ELSE LET p == PartitionFrom(arr, start, end, start)
             moved == [p.arr EXCEPT ![end] = p.arr[p.splitIndex],
                                    ![p.splitIndex] = arr[end]]
         IN  recursiveSort(recursiveSort(moved, start, p.splitIndex - 1),
                           p.splitIndex + 1, end)
quickSort(keys) == recursiveSort(keys, 1, Len(keys))

\* the entries of the map in the order of the sorted keys, as written to a
\* batch file
MapKeys(map) == [i \in 1..Len(map) |-> map[i].key]
MapGet(map, key) == map[CHOOSE i \in 1..Len(map) : map[i].key = key]
EntriesOf(map, sortedKeys) == [i \in 1..Len(sortedKeys) |-> MapGet(map, sortedKeys[i])]
SortedMap(map) == EntriesOf(map, quickSort(MapKeys(map)))

\* loadEntry: where the entry read for batch b goes into sortedEntryIndexes
RECURSIVE NewSortIndex(_, _, _, _)
NewSortIndex(rest, i, key, epb) ==
    IF i <= Len(rest) /\ key > epb[rest[i]].key
    THEN NewSortIndex(rest, i + 1, key, epb)
    ELSE i
Reinsert(sorted, b, key, epb) ==
    IF sorted = <<>> THEN sorted
    ELSE LET old == CHOOSE i \in 1..Len(sorted) : sorted[i] = b
             rest == SubSeq(sorted, 1, old - 1) \o SubSeq(sorted, old + 1, Len(sorted))
             new == NewSortIndex(rest, old, key, epb)
         IN  SubSeq(rest, 1, new - 1) \o <<b>> \o SubSeq(rest, new, Len(rest))

\* loadEntry(batchIndex) on the merge state m = [epb, rpos, sorted]
RECURSIVE loadEntry(_, _, _)
loadEntry(m, rf, b) ==
    IF m.rpos[b] >= Len(rf[b].entries)
    THEN [m EXCEPT !.epb[b] = NoEntry,
                   !.sorted = SelectSeq(@, LAMBDA x : x # b)]
    ELSE LET e == rf[b].entries[m.rpos[b] + 1]
             adv == [m EXCEPT !.rpos[b] = @ + 1]
             existing == {j \in DOMAIN m.epb : m.epb[j].key = e.key}
         IN  IF existing # {}
             THEN LET j == CHOOSE x \in existing : \A y \in existing : x <= y
                  IN  loadEntry([adv EXCEPT !.epb[j].values = @ \o e.values], rf, b)
             ELSE [adv EXCEPT !.epb[b] = e,
                              !.sorted = Reinsert(@, b, e.key, [adv.epb EXCEPT ![b] = e])]

\* loadEntries: loadEntry for every batch file, then the initial sort
RECURSIVE loadAll(_, _, _, _)
loadAll(m, rf, b, n) ==
    IF b > n THEN m ELSE loadAll(loadEntry(m, rf, b), rf, b + 1, n)
RECURSIVE SortedIndexesFrom(_, _)
SortedIndexesFrom(epb, k) ==
    IF k > MaxKey THEN <<>>
    ELSE SelectSeq([i \in 1..Len(epb) |-> i], LAMBDA i : epb[i].key = k)
            \o SortedIndexesFrom(epb, k + 1)

\* BinaryBPlusTree.createFromEntryStream: every value of every merged entry
RECURSIVE Flatten(_)
Flatten(es) == IF es = <<>> THEN <<>> ELSE Head(es).values \o Flatten(Tail(es))
createFromEntryStream(es) ==
    [r \in SeqRange(BuildRecs) |->
        Cardinality({i \in 1..Len(Flatten(es)) : Flatten(es)[i] = r})]

(***************************************************************************)
(* ArrayIndex                                                              *)
(***************************************************************************)
\* the elements an indexed array can hold; "X" and "x" differ in case only
ArrayElems == {"x", "X", "y"}
Arrays == UNION {[1..n -> ArrayElems] : n \in 0..MaxArrayLen}
\* String.toLocaleLowerCase of a key value
toLocaleLowerCase(v) == IF v = "X" THEN "x" ELSE v

\* handleRecordUpdate: the elements of old[] that are not in new[], and back
removed(oldEntries, newEntries) ==
    SelectSeq(oldEntries, LAMBDA entry : entry \notin SeqRange(newEntries))
added(oldEntries, newEntries) ==
    SelectSeq(newEntries, LAMBDA entry : entry \notin SeqRange(oldEntries))

\* super.handleRecordUpdate per removed element (old = entry, new = null) and
\* per added element (old = null, new = entry); key values are lowercased
RECURSIVE RemovedOps(_, _)
RemovedOps(es, rp) ==
    IF es = <<>> THEN <<>>
    ELSE UpdateOps(toLocaleLowerCase(Head(es)), Null, rp) \o RemovedOps(Tail(es), rp)
RECURSIVE AddedOps(_, _)
AddedOps(es, rp) ==
    IF es = <<>> THEN <<>>
    ELSE UpdateOps(Null, toLocaleLowerCase(Head(es)), rp) \o AddedOps(Tail(es), rp)
ArrayOps(oldEntries, newEntries, rp) ==
    RemovedOps(removed(oldEntries, newEntries), rp)
        \o AddedOps(added(oldEntries, newEntries), rp)

\* the tree's add and remove; unique: the tree keeps one value per record
\* pointer under a key, else add pushes one more value as ApplyOp does
ApplyArrayOp(unique, t, o) ==
    IF unique /\ o.type = "add" /\ t[<<o.key, o.rp>>] > 0 THEN t ELSE ApplyOp(t, o)
RECURSIVE ApplyArrayOps(_, _, _)
ApplyArrayOps(unique, t, os) ==
    IF os = <<>> THEN t
    ELSE ApplyArrayOps(unique, ApplyArrayOp(unique, t, Head(os)), Tail(os))

\* the records of a result's entries
ResultRecs(entries) == {r \in Recs : \E v \in Vals : entries[<<v, r>>] > 0}

(***************************************************************************)
(* FullTextIndex                                                           *)
(***************************************************************************)
\* the words of the indexed texts, in key order; a text is modelled as its
\* sequence of lowercase words (the matches of _wordsRegex)
FtWords == <<"a", "b">>
\* a query word that holds a wildcard: "?" is like every one-letter word
Wildcard == "?"
FtTokens == SeqRange(FtWords) \cup {Wildcard}
FtRecs == <<"r1", "r2">>
Texts == UNION {[1..n -> SeqRange(FtWords)] : n \in 0..MaxTextLen}
\* Number.NaN: no position is equal to it
NaN == -1

\* the distinct elements of a sequence in the order of their first occurrence
RECURSIVE Dedupe(_)
Dedupe(ws) ==
    IF ws = <<>> THEN <<>>
    ELSE LET d == Dedupe(SubSeq(ws, 1, Len(ws) - 1))
         IN  IF ws[Len(ws)] \in SeqRange(d) THEN d ELSE Append(d, ws[Len(ws)])

\* TextInfo: WordInfo.indexes of a word, the 0-based positions it occurs at
WordIndexes(text, w) ==
    SelectSeq([i \in 1..Len(text) |-> i - 1], LAMBDA i : text[i + 1] = w)

\* FullTextIndex.handleRecordUpdate: the words removed, added and changed
ftRemoved(oldText, newText) ==
    SelectSeq(Dedupe(oldText), LAMBDA w : w \notin SeqRange(newText))
ftAdded(oldText, newText) ==
    SelectSeq(Dedupe(newText), LAMBDA w : w \notin SeqRange(oldText))
ftChanged(oldText, newText) ==
    SelectSeq(Dedupe(oldText),
              LAMBDA w : /\ w \in SeqRange(newText)
                         /\ WordIndexes(oldText, w) # WordIndexes(newText, w))

\* the tree after the remove of every removed and changed word and the add of
\* every added and changed word with metadata _occurs_ = indexes.join(',')
RECURSIVE FtRemoveAll(_, _, _)
FtRemoveAll(t, ws, rp) ==
    IF ws = <<>> THEN t
    ELSE FtRemoveAll([t EXCEPT ![<<Head(ws), rp>>] = <<>>], Tail(ws), rp)
RECURSIVE FtAddAll(_, _, _, _)
FtAddAll(t, ws, rp, text) ==
    IF ws = <<>> THEN t
    ELSE FtAddAll([t EXCEPT ![<<Head(ws), rp>>] = WordIndexes(text, Head(ws))],
                  Tail(ws), rp, text)
FtUpdateTree(t, rp, oldText, newText) ==
    FtAddAll(FtRemoveAll(t, ftRemoved(oldText, newText) \o ftChanged(oldText, newText), rp),
             ftAdded(oldText, newText) \o ftChanged(oldText, newText), rp, newText)

EmptyFtTree == [k \in SeqRange(FtWords) \X SeqRange(FtRecs) |-> <<>>]
\* every (word, record pointer) in key order, values in record order
FtAllValues ==
    [i \in 1..(Len(FtWords) * Len(FtRecs)) |->
        <<FtWords[((i - 1) \div Len(FtRecs)) + 1], FtRecs[((i - 1) % Len(FtRecs)) + 1]>>]

\* queryWord: '==' for a plain word, 'like' for a word with a wildcard
WordOp(word) == IF word = Wildcard THEN "like" ELSE "=="
\* BinaryBPlusTree.search(wordOp, word): the values of the matching entries
FtSearch(t, word) ==
    SelectSeq(FtAllValues,
              LAMBDA v : t[v] # <<>> /\ (WordOp(word) = "like" \/ v[1] = word))

\* DataIndex.query with options.filter: the smaller of the two sets is walked,
\* a match is always a value of the word searched for
FirstOfRec(values, rp) ==
    CHOOSE i \in 1..Len(values) :
        values[i][2] = rp /\ \A j \in 1..(i - 1) : values[j][2] # rp
HasRec(values, rp) == \E i \in 1..Len(values) : values[i][2] = rp
FilterValues(values, filterValues) ==
    IF Len(filterValues) < Len(values)
    THEN LET hit == SelectSeq(filterValues, LAMBDA fv : HasRec(values, fv[2]))
         IN  [k \in 1..Len(hit) |-> values[FirstOfRec(values, hit[k][2])]]
    ELSE SelectSeq(values, LAMBDA v : HasRec(filterValues, v[2]))

\* counts.sort: the query words by ascending count, equal counts keep their order
RECURSIVE SortByCountFrom(_, _, _)
SortByCountFrom(t, words, c) ==
    IF c > Len(FtAllValues) THEN <<>>
    ELSE SelectSeq(words, LAMBDA w : Len(FtSearch(t, w)) = c)
            \o SortByCountFrom(t, words, c + 1)
SortByCount(t, words) == SortByCountFrom(t, words, 0)

\* nextWord: query word after word, each filtered by the results before;
\* acc = [results, perWord, searched]; searched holds the words queryWord has
\* passed to DataIndex.query, which caches the entries of each
RECURSIVE nextWord(_, _, _, _)
nextWord(t, allWords, wordIndex, acc) ==
    LET word == allWords[wordIndex]
        fr == IF wordIndex = 1 THEN FtSearch(t, word)
              ELSE FilterValues(FtSearch(t, word), acc.results)
        now == [results |-> fr, perWord |-> [acc.perWord EXCEPT ![word] = fr],
                searched |-> acc.searched \cup {word}]
    IN  IF fr = <<>> \/ wordIndex = Len(allWords) THEN now
        ELSE nextWord(t, allWords, wordIndex + 1, now)

\* parseInt(string, radix) of the decimal string of a one-digit number
parseInt(d, radix) ==
    IF radix = 0 THEN d
    ELSE IF radix = 1 THEN NaN
    ELSE IF d < radix THEN d ELSE NaN
\* _occurs_.split(',').map(parseInt): map passes the index as the radix
ParseOccurs(indexes) == [i \in 1..Len(indexes) |-> parseInt(indexes[i], i - 1)]

\* wordMatches: per query word its first result for the record
WordMatch(perWord, word, rp) == perWord[word][FirstOfRec(perWord[word], rp)]
\* check(0): some parsed position of the first word is followed by the others
PhraseCheck(t, perWord, words, rp) ==
    LET occurs(k) == ParseOccurs(t[WordMatch(perWord, words[k], rp)])
    IN  \E i \in 1..Len(occurs(1)) :
            /\ occurs(1)[i] # NaN
            /\ \A k \in 2..Len(words) :
                   \E j \in 1..Len(occurs(k)) : occurs(k)[j] = occurs(1)[i] + (k - 1)

\* the results of nextWord, reduced by the phrase check if options.phrase is
\* set and more than one word is left; parsed holds the values whose cached
\* _occurs_ has been replaced by an array already (split then throws)
PhraseResults(t, parsed, words, phrase, run) ==
    LET touched == {WordMatch(run.perWord, words[k], run.results[i][2]) :
                        k \in 1..Len(words), i \in 1..Len(run.results)}
    IN  IF ~(phrase /\ Len(words) > 1)
        THEN [error |-> FALSE, results |-> run.results, parsed |-> parsed,
              searched |-> run.searched]
        ELSE IF touched \cap parsed # {}
        THEN [error |-> TRUE, results |-> <<>>, parsed |-> parsed \cup touched,
              searched |-> run.searched]
        ELSE [error |-> FALSE,
              results |-> SelectSeq(run.results,
                                    LAMBDA m : PhraseCheck(t, run.perWord, words, m[2])),
              parsed |-> parsed \cup touched, searched |-> run.searched]

\* the query of a list of words (the part of FullTextIndex.query after the
\* OR and phrase branches): double words removed, the words sorted by count
QueryWords(t, parsed, val, phrase) ==
    PhraseResults(t, parsed, Dedupe(val), phrase,
                  nextWord(t, SortByCount(t, Dedupe(val)), 1,
                           [results |-> <<>>, perWord |-> [w \in FtTokens |-> <<>>],
                            searched |-> {}]))

\* the queries of the model: a part is a list of words, quoted or not
FtWordLists(S) == UNION {[1..n -> S] : n \in 1..MaxPhraseLen}
FtPart(phrase, words) == [phrase |-> phrase, words |-> words]
PlainParts ==
    {FtPart(FALSE, <<w>>) : w \in FtTokens}
        \cup {FtPart(FALSE, ws) : ws \in FtWordLists(SeqRange(FtWords))}
PhraseParts == {FtPart(TRUE, ws) : ws \in FtWordLists(SeqRange(FtWords)) \ {<<w>> : w \in SeqRange(FtWords)}}
OrQueries == {<<FtPart(FALSE, <<v>>), FtPart(FALSE, <<w>>)>> : v, w \in FtTokens}
FtCacheKeys == FtWordLists(FtTokens)
EmptyFtCache == [k \in FtCacheKeys |-> [cached |-> FALSE, results |-> <<>>]]

\* query(op, q) of one part: the cache probe under the words of the part, else
\* QueryWords and this.cache(op, val, results); s = [cache, parsed]
QueryPart(t, s, part) ==
    IF s.cache[part.words].cached
    THEN [error |-> FALSE, results |-> s.cache[part.words].results,
          cache |-> s.cache, parsed |-> s.parsed, searched |-> {}]
    ELSE LET q == QueryWords(t, s.parsed, part.words, part.phrase)
         IN  [error |-> q.error, results |-> q.results, parsed |-> q.parsed,
              searched |-> q.searched,
              cache |-> IF q.error THEN s.cache
                        ELSE [s.cache EXCEPT ![part.words] =
                                 [cached |-> TRUE, results |-> q.results]]]

\* the OR branch: merged is the first result set, the results of the others
\* are pushed onto it unless their path is in it already
RECURSIVE PushNew(_, _)
PushNew(merged, results) ==
    IF results = <<>> THEN merged
    ELSE PushNew(IF HasRec(merged, Head(results)[2]) THEN merged
                 ELSE Append(merged, Head(results)), Tail(results))
Paths(results) == [i \in 1..Len(results) |-> results[i][2]]

(***************************************************************************)
(* SpecLock: clients calling _lock and release                             *)
(***************************************************************************)
\* the state after construction: nothing locked, nothing indexed, no scratch file
Init ==
    /\ lockState = InitLockState
    /\ lockQueue = <<>>
    /\ lkHolders = {}
    /\ lkGranted = {}
    /\ lkNext = 1
    /\ store = InitStore
    /\ tree = EmptyTree
    /\ cache = EmptyCache
    /\ proc = [p \in Procs |-> IdleProc]
    /\ updates = 0
    /\ failures = 0
    /\ bKey = [r \in SeqRange(BuildRecs) |-> NoKey]
    /\ buildFile = NoFile
    /\ runFiles = [n \in RunNrs |-> NoFile]
    /\ mergeFile = NoFile
    /\ indexFile = EmptyIndexFile
    /\ bmem = IdleBuild
    /\ crashes = 0
    /\ arrays = [r \in Recs |-> <<>>]
    /\ arrayUnique = FALSE
    /\ arrayResult = [asked |-> FALSE]
    /\ arrayUpdates = 0
    /\ ftTexts = [r \in SeqRange(FtRecs) |-> <<>>]
    /\ ftTree = EmptyFtTree
    /\ ftCache = EmptyFtCache
    /\ ftParsed = {}
    /\ ftResult = [asked |-> FALSE]
    /\ ftUpdates = 0
    /\ ftQueries = 0
    /\ takeLeaves = <<<<>>>>
    /\ takeResult = [asked |-> FALSE]
    /\ qVals = [n \in 1..MaxNodes |-> [a |-> 1, b |-> 1]]
    /\ qIndex = FALSE
    /\ qResult = [asked |-> FALSE]
    /\ rpInput = [path |-> <<65>>, wildcards |-> <<>>, key |-> <<65>>]
    /\ rpStored = <<>>
    /\ rpParsed = [done |-> FALSE]
    /\ wnInline = [k \in WriteKeys |-> NoProp]
    /\ wnRecords = [k \in WriteKeys |-> NoProp]
    /\ wnLast = [written |-> FALSE]
    /\ wnWrites = 0
    /\ cServed = [asked |-> FALSE]
    /\ btUpdate = [old |-> <<>>, new |-> <<>>, started |-> FALSE]
    /\ btBatches = <<>>
    /\ btLog = <<>>
    /\ btFailures = 0
    /\ maxValues = 2
    /\ idxOpen = 0
    /\ fdOpen = FALSE
    /\ hPc = [p \in Procs |-> "idle"]
    /\ hOps = 0
    /\ ftWordCache = {}
    /\ upIndex = [type |-> "normal", includeKeys |-> <<>>]
    /\ upStored = [null |-> TRUE, key |-> Null, inc |-> Null]
    /\ upLast = [called |-> FALSE]
    /\ exSliding = FALSE
    /\ exClock = 0
    /\ exEntry = [exists |-> FALSE]
    /\ exTimers = {}
    /\ exPc = [p \in Procs |-> "idle"]
    /\ exNext = 1
    /\ exRemoved = [removed |-> FALSE]
    /\ maxEntriesPerNode = 2
    /\ uniqueKeys = FALSE
    /\ treeLeaves = <<[entries |-> <<>>, low |-> 0, id |-> 1, prevLeaf |-> 0, nextLeaf |-> 0]>>
    /\ leafThrown = FALSE
    /\ crLength = 0
    /\ crMaxEntries = NotGiven
    /\ crFillFactor = 100
    /\ crLeaves = <<>>
    /\ crNodes = <<>>
    /\ crPc = "start"
    /\ qsInput = <<>>
    /\ qsArr = <<>>
    /\ qsStack = <<>>
    /\ qsShell = [start |-> 0, end |-> 0, inc |-> 0, i |-> 0]
    /\ qsPc = "start"
    /\ qsPart = [start |-> 0, end |-> 0, depth |-> 0, i |-> 0, j |-> 0, pivot |-> 0]
    /\ qsI = 0
    /\ mnStore = [r \in Recs |-> Null]
    /\ mnMatched = {}
    /\ mnPending = {}
    /\ mnEvent = [name |-> "none"]
    /\ mnCalls = 0
    /\ gnParent = NoRecord
    /\ gnLast = [op |-> "none"]
    /\ buUnique = FALSE
    /\ buList = [k \in BuilderKeys |-> <<>>]
    /\ buThrown = FALSE

\* a client calls _lock(forWriting)
LockCall(forWriting) ==
    /\ lkNext <= MaxLocks
    /\ lkNext' = lkNext + 1
    /\ IF GrantedAtOnce(lockState, forWriting)
       THEN /\ lockState' = AcquiredState(forWriting)
            /\ lockQueue' = lockQueue
            /\ lkHolders' = lkHolders \cup {LockObj(lkNext, forWriting, FALSE)}
            /\ lkGranted' = lkGranted \cup {LockObj(lkNext, forWriting, FALSE)}
       ELSE /\ lockQueue' = Append(lockQueue, LockObj(lkNext, forWriting, TRUE))
            /\ UNCHANGED <<lockState, lkHolders, lkGranted>>
    /\ UNCHANGED notLock

\* a holder calls lock.release(), once
LockRelease(l) ==
    /\ l \in lkHolders
    /\ lockState' = ReleasedState(lockState, lockQueue)
    /\ lockQueue' = Remaining(lockQueue)
    /\ lkHolders' = (lkHolders \ {l}) \cup SeqRange(Pending(lockQueue))
    /\ lkGranted' = lkGranted \cup SeqRange(Pending(lockQueue))
    /\ UNCHANGED lkNext
    /\ UNCHANGED notLock

NextLock ==
    \/ \E fw \in BOOLEAN : LockCall(fw)
    \/ \E l \in lkHolders : LockRelease(l)

SpecLock == Init /\ [][NextLock]_vars

\* the lock objects of a behaviour
LockObjs == {LockObj(id, fw, queued) : id \in 1..MaxLocks, fw \in BOOLEAN, queued \in BOOLEAN}
\* every holder calls release at some time: the then-handlers of the callers
\* run once their promise is resolved
SpecLockLive == SpecLock /\ \A l \in LockObjs : WF_vars(LockRelease(l))


(***************************************************************************)
(* Spec: queries, counts and record updates on one index                   *)
(***************************************************************************)

\* some running update has applied a part of its batch only
SomePartial == \E q \in Procs : Partial(proc[q])

\* the index types and the validOperators of each
IndexTypes == {"normal", "array", "fulltext"}
validOperators(type) ==
    IF type = "normal"
    THEN {"<", "<=", "==", "!=", ">=", ">", "exists", "!exists", "between", "!between",
          "like", "!like", "matches", "!matches", "in", "!in"}
    ELSE IF type = "array" THEN {"contains", "!contains"}
    ELSE {"fulltext:contains", "fulltext:!contains"}
\* the query calls of the model on an index of each type: its type and operator
QueryCalls ==
    {<<"normal", op>> : op \in QueryOps}
    \cup {<<"normal", "contains">>, <<"array", "==">>, <<"fulltext", "contains">>}

\* a query that lets every operator pass
InvalidOperatorNever(type, op) == FALSE
\* the test at the top of query: validOperators.indexOf(op) < 0
InvalidOperator(type, op) == op \notin validOperators(type)

\* this._cache.get(op).get(val), nothing when the map has no such entry
ProbeCache(c, op, val) == IF <<op, val>> \in DOMAIN c THEN c[<<op, val>>] ELSE NoCache

\* query(op, val) up to the cache probe and the lock request, or up to the
\* throw for an operator the index type does not support
QueryStart(p, type, op, val) ==
    /\ proc[p].pc = "idle"
    /\ LET pr == [IdleProc EXCEPT !.type = type, !.op = op, !.val = val]
           hit == ProbeCache(cache, op, val)
       IN  IF InvalidOperator(type, op)
           THEN /\ proc' = [proc EXCEPT ![p] = [pr EXCEPT !.pc = "q_thrown", !.val = Null]]
                /\ UNCHANGED lockVars
           ELSE IF hit.cached
           THEN /\ proc' = [proc EXCEPT ![p] =
                              [pr EXCEPT !.pc = "q_done", !.entries = hit.entries,
                                         !.stale = hit.outdated]]
                /\ UNCHANGED lockVars
           ELSE LockBy(p, pr, FALSE, "q_locked", "q_wait")
    /\ UNCHANGED <<store, tree, cache, updates, failures>>
    /\ UNCHANGED notIndex

\* query: tree.search under the read lock
QuerySearch(p) ==
    /\ proc[p].pc = "q_locked"
    /\ proc' = [proc EXCEPT ![p] =
                  [@ EXCEPT !.pc = "q_read",
                            !.entries = Search(tree, proc[p].op, proc[p].val),
                            !.partial = SomePartial]]
    /\ UNCHANGED <<store, tree, cache, updates, failures>>
    /\ UNCHANGED <<lockVars, notIndex>>

\* query: the search has resolved: release, then cache the entries
QueryFinish(p) ==
    /\ proc[p].pc = "q_read"
    /\ ReleaseBy(p, [proc[p] EXCEPT !.pc = "q_done"], proc)
    /\ cache' = [cache EXCEPT ![<<proc[p].op, proc[p].val>>] =
                   [cached |-> TRUE, entries |-> proc[p].entries,
                    outdated |-> proc[p].outdated]]
    /\ UNCHANGED <<store, tree, updates, failures>>
    /\ UNCHANGED notIndex

\* count(op, val) up to the lock request
CountStart(p, op, val) ==
    /\ proc[p].pc = "idle"
    /\ LockBy(p, [IdleProc EXCEPT !.op = op, !.val = val],
              FALSE, "c_locked", "c_wait")
    /\ UNCHANGED <<store, tree, cache, updates, failures>>
    /\ UNCHANGED notIndex

\* count: tree.search under the read lock, then release
CountFinish(p) ==
    /\ proc[p].pc = "c_locked"
    /\ ReleaseBy(p, [proc[p] EXCEPT !.pc = "c_done",
                        !.entries = Search(tree, proc[p].op, proc[p].val),
                        !.partial = SomePartial], proc)
    /\ UNCHANGED <<store, tree, cache, updates, failures>>
    /\ UNCHANGED notIndex

\* the caller has received the result of its operation
Return(p) ==
    /\ proc[p].pc \in {"q_done", "c_done", "u_done", "q_thrown"}
    /\ proc' = [proc EXCEPT ![p] = IdleProc]
    /\ UNCHANGED <<store, tree, cache, updates, failures>>
    /\ UNCHANGED <<lockVars, notIndex>>

\* handleRecordUpdate(path, oldValue, newValue) for a changed key value, up to
\* the lock request of _processTreeOperations
HandleRecordUpdate(p, r, newValue) ==
    /\ proc[p].pc = "idle"
    /\ updates < MaxUpdates
    /\ store[r] # newValue
    /\ updates' = updates + 1
    /\ store' = [store EXCEPT ![r] = newValue]
    /\ cache' = EmptyCache
    /\ LET ops == UpdateOps(store[r], newValue, r)
       IN  LockBy(p, [IdleProc EXCEPT !.ops = ops,
                                      !.done = [i \in 1..Len(ops) |-> 0]],
                  TRUE, "u_locked", "u_wait")
    /\ UNCHANGED <<tree, failures>>
    /\ UNCHANGED notIndex

\* history: the cache after k operations have mutated the tree; the entries it
\* holds were computed from the tree as it was before
Outdated(c, k) ==
    [ck \in CacheKeys |->
        IF c[ck].cached /\ k > 0 THEN [c[ck] EXCEPT !.outdated = TRUE] ELSE c[ck]]

\* history: the same for the entries a query has read and not yet cached
OutdatedReads(ps, k) ==
    [q \in Procs |->
        IF ps[q].pc = "q_read" /\ k > 0 THEN [ps[q] EXCEPT !.outdated = TRUE]
        ELSE ps[q]]

\* the operations applied so far, after the first k of the left-over ones ran
DoneAfter(pr, k) ==
    [i \in 1..Len(pr.done) |->
        IF /\ i > Len(pr.done) - Len(pr.ops)
           /\ i <= Len(pr.done) - Len(pr.ops) + k
        THEN pr.done[i] + 1 ELSE pr.done[i]]

\* _processTreeOperations: tree.transaction(operations) runs every operation;
\* the lock is released and the update resolves
TransactionOk(p) ==
    /\ proc[p].pc = "u_locked"
    /\ tree' = ApplyOps(tree, proc[p].ops)
    /\ cache' = Outdated(cache, Len(proc[p].ops))
    /\ ReleaseBy(p, [proc[p] EXCEPT !.pc = "u_done", !.ops = <<>>,
                        !.done = DoneAfter(proc[p], Len(proc[p].ops))],
                 OutdatedReads(proc, Len(proc[p].ops)))
    /\ UNCHANGED <<store, updates, failures>>
    /\ UNCHANGED notIndex

\* _processTreeOperations: tree.transaction(operations) fails at operation
\* k+1; the operations from there on stay in the array and _rebuild starts
TransactionFail(p, k) ==
    /\ proc[p].pc = "u_locked"
    /\ failures < MaxFailures
    /\ k < Len(proc[p].ops)
    /\ failures' = failures + 1
    /\ tree' = ApplyOps(tree, SubSeq(proc[p].ops, 1, k))
    /\ cache' = Outdated(cache, k)
    /\ proc' = [OutdatedReads(proc, k) EXCEPT ![p] =
                  [@ EXCEPT !.pc = "u_rebuild",
                            !.ops = SubSeq(proc[p].ops, k + 1, Len(proc[p].ops)),
                            !.done = DoneAfter(proc[p], k)]]
    /\ UNCHANGED <<store, updates>>
    /\ UNCHANGED <<lockVars, notIndex>>

\* _processTreeOperations: _rebuild has resolved: release, then process the
\* left-over operations with a new lock request
RebuildDone(p) ==
    /\ proc[p].pc = "u_rebuild"
    /\ LET st == ReleasedState(lockState, lockQueue)
           q == Remaining(lockQueue)
           woken == {l.id : l \in SeqRange(Pending(lockQueue))}
           again == LeftOver(proc[p].ops)
           atOnce == GrantedAtOnce(st, TRUE)
           pc == IF ~again THEN "u_done"
                 ELSE IF atOnce THEN "u_locked" ELSE "u_wait"
       IN  /\ lockState' = IF again /\ atOnce THEN AcquiredState(TRUE) ELSE st
           /\ lockQueue' = IF again /\ ~atOnce
                           THEN Append(q, LockObj(p, TRUE, TRUE)) ELSE q
           /\ proc' = [x \in Procs |->
                         IF x = p THEN [proc[p] EXCEPT !.pc = pc, !.rebuilt = TRUE]
                         ELSE IF x \in woken
                              THEN [proc[x] EXCEPT !.pc = GrantedPc(@)]
                              ELSE proc[x]]
    /\ UNCHANGED <<store, tree, cache, updates, failures>>
    /\ UNCHANGED notIndex

\* query: _getTree or tree.search rejects under the read lock; no handler of
\* the chain releases the lock, the promise of query rejects
QueryFail(p) ==
    /\ proc[p].pc = "q_locked"
    /\ failures < MaxFailures
    /\ failures' = failures + 1
    /\ proc' = [proc EXCEPT ![p] = [@ EXCEPT !.pc = "q_failed"]]
    /\ UNCHANGED <<store, tree, cache, updates>>
    /\ UNCHANGED <<lockVars, notIndex>>

\* count: the same for _getTree or tree.search of count
CountFail(p) ==
    /\ proc[p].pc = "c_locked"
    /\ failures < MaxFailures
    /\ failures' = failures + 1
    /\ proc' = [proc EXCEPT ![p] = [@ EXCEPT !.pc = "c_failed"]]
    /\ UNCHANGED <<store, tree, cache, updates>>
    /\ UNCHANGED <<lockVars, notIndex>>

\* _processTreeOperations: _rebuild rejects; the .then that releases the lock
\* is skipped and the promise of the update rejects
RebuildFail(p) ==
    /\ proc[p].pc = "u_rebuild"
    /\ proc' = [proc EXCEPT ![p] = [@ EXCEPT !.pc = "u_failed"]]
    /\ UNCHANGED <<store, tree, cache, updates, failures>>
    /\ UNCHANGED <<lockVars, notIndex>>

\* cache: the timer of an entry fires and deletes it
CacheTimeout(ck) ==
    /\ cache[ck].cached
    /\ cache' = [cache EXCEPT ![ck] = NoCache]
    /\ UNCHANGED <<store, tree, proc, updates, failures>>
    /\ UNCHANGED <<lockVars, notIndex>>

Next ==
    \/ \E p \in Procs, call \in QueryCalls, val \in Vals : QueryStart(p, call[1], call[2], val)
    \/ \E p \in Procs : QuerySearch(p)
    \/ \E p \in Procs : QueryFinish(p)
    \/ \E p \in Procs, op \in QueryOps, val \in Vals : CountStart(p, op, val)
    \/ \E p \in Procs : CountFinish(p)
    \/ \E p \in Procs : Return(p)
    \/ \E p \in Procs, r \in Recs, v \in Vals \cup {Null} : HandleRecordUpdate(p, r, v)
    \/ \E p \in Procs : TransactionOk(p)
    \/ \E p \in Procs, k \in 0..1 : TransactionFail(p, k)
    \/ \E p \in Procs : RebuildDone(p)
    \/ \E p \in Procs : QueryFail(p)
    \/ \E p \in Procs : CountFail(p)
    \/ \E p \in Procs : RebuildFail(p)
    \/ \E ck \in CacheKeys : CacheTimeout(ck)

Spec == Init /\ [][Next]_vars

(***************************************************************************)
(* SpecBuild: build() of one index, the process stopping and build() run   *)
(* again on the files the stopped run left                                 *)
(***************************************************************************)
InitBuild ==
    /\ lockState = InitLockState
    /\ lockQueue = <<>>
    /\ lkHolders = {}
    /\ lkGranted = {}
    /\ lkNext = 1
    /\ store = InitStore
    /\ tree = EmptyTree
    /\ cache = EmptyCache
    /\ proc = [p \in Procs |-> IdleProc]
    /\ updates = 0
    /\ failures = 0
    /\ bKey \in [SeqRange(BuildRecs) -> (1..MaxKey) \cup {NoKey}]
    /\ buildFile = NoFile
    /\ runFiles = [n \in RunNrs |-> NoFile]
    /\ mergeFile = NoFile
    /\ indexFile = EmptyIndexFile
    /\ bmem = IdleBuild
    /\ crashes = 0
    /\ arrays = [r \in Recs |-> <<>>]
    /\ arrayUnique = FALSE
    /\ arrayResult = [asked |-> FALSE]
    /\ arrayUpdates = 0
    /\ ftTexts = [r \in SeqRange(FtRecs) |-> <<>>]
    /\ ftTree = EmptyFtTree
    /\ ftCache = EmptyFtCache
    /\ ftParsed = {}
    /\ ftResult = [asked |-> FALSE]
    /\ ftUpdates = 0
    /\ ftQueries = 0
    /\ takeLeaves = <<<<>>>>
    /\ takeResult = [asked |-> FALSE]
    /\ qVals = [n \in 1..MaxNodes |-> [a |-> 1, b |-> 1]]
    /\ qIndex = FALSE
    /\ qResult = [asked |-> FALSE]
    /\ rpInput = [path |-> <<65>>, wildcards |-> <<>>, key |-> <<65>>]
    /\ rpStored = <<>>
    /\ rpParsed = [done |-> FALSE]
    /\ wnInline = [k \in WriteKeys |-> NoProp]
    /\ wnRecords = [k \in WriteKeys |-> NoProp]
    /\ wnLast = [written |-> FALSE]
    /\ wnWrites = 0
    /\ cServed = [asked |-> FALSE]
    /\ btUpdate = [old |-> <<>>, new |-> <<>>, started |-> FALSE]
    /\ btBatches = <<>>
    /\ btLog = <<>>
    /\ btFailures = 0
    /\ maxValues \in 2..MaxBatchValues
    /\ idxOpen = 0
    /\ fdOpen = FALSE
    /\ hPc = [p \in Procs |-> "idle"]
    /\ hOps = 0
    /\ ftWordCache = {}
    /\ upIndex = [type |-> "normal", includeKeys |-> <<>>]
    /\ upStored = [null |-> TRUE, key |-> Null, inc |-> Null]
    /\ upLast = [called |-> FALSE]
    /\ exSliding = FALSE
    /\ exClock = 0
    /\ exEntry = [exists |-> FALSE]
    /\ exTimers = {}
    /\ exPc = [p \in Procs |-> "idle"]
    /\ exNext = 1
    /\ exRemoved = [removed |-> FALSE]
    /\ maxEntriesPerNode = 2
    /\ uniqueKeys = FALSE
    /\ treeLeaves = <<[entries |-> <<>>, low |-> 0, id |-> 1, prevLeaf |-> 0, nextLeaf |-> 0]>>
    /\ leafThrown = FALSE
    /\ crLength = 0
    /\ crMaxEntries = NotGiven
    /\ crFillFactor = 100
    /\ crLeaves = <<>>
    /\ crNodes = <<>>
    /\ crPc = "start"
    /\ qsInput = <<>>
    /\ qsArr = <<>>
    /\ qsStack = <<>>
    /\ qsShell = [start |-> 0, end |-> 0, inc |-> 0, i |-> 0]
    /\ qsPc = "start"
    /\ qsPart = [start |-> 0, end |-> 0, depth |-> 0, i |-> 0, j |-> 0, pivot |-> 0]
    /\ qsI = 0
    /\ mnStore = [r \in Recs |-> Null]
    /\ mnMatched = {}
    /\ mnPending = {}
    /\ mnEvent = [name |-> "none"]
    /\ mnCalls = 0
    /\ gnParent = NoRecord
    /\ gnLast = [op |-> "none"]
    /\ buUnique = FALSE
    /\ buList = [k \in BuilderKeys |-> <<>>]
    /\ buThrown = FALSE

BuildRunning == bmem.pc \notin {"idle", "caught", "done"}

\* build(): the write lock, then createBuildFile opens the build file to append
BuildStart ==
    /\ bmem.pc = "idle"
    /\ GrantedAtOnce(lockState, TRUE)
    /\ lockState' = AcquiredState(TRUE)
    /\ buildFile' = [buildFile EXCEPT !.exists = TRUE]
    /\ bmem' = [bmem EXCEPT !.pc = "A"]
    /\ UNCHANGED <<bKey, runFiles, mergeFile, indexFile, crashes>>
    /\ UNCHANGED notBuild

\* getAll: the next child record; addIndexValue if its key can be indexed
WriteBuildEntry ==
    /\ bmem.pc = "A"
    /\ bmem.apos < Len(BuildRecs)
    /\ LET r == BuildRecs[bmem.apos + 1]
       IN  buildFile' = IF bKey[r] # NoKey
                        THEN [buildFile EXCEPT !.entries = Append(@, BuildEntry(bKey[r], r))]
                        ELSE buildFile
    /\ bmem' = [bmem EXCEPT !.apos = @ + 1]
    /\ UNCHANGED <<bKey, runFiles, mergeFile, indexFile, crashes, lockState>>
    /\ UNCHANGED notBuild

\* createMergeFile: EEXIST if the merge file is there, else open the build file
CreateMergeFile ==
    /\ bmem.pc = "A"
    /\ bmem.apos = Len(BuildRecs)
    /\ bmem' = IF mergeFile.exists
               THEN [bmem EXCEPT !.pc = "D_open"]
               ELSE [bmem EXCEPT !.pc = "B", !.readPos = 0, !.batchNr = 1,
                                 !.map = <<>>, !.processedValues = 0, !.more = FALSE]
    /\ UNCHANGED <<bKey, buildFile, runFiles, mergeFile, indexFile, crashes, lockState>>
    /\ UNCHANGED notBuild

\* nextEntry: read the next unflagged entry, put it in the map and flag it
NextEntry ==
    /\ bmem.pc = "B"
    /\ LET i == NextUnprocessed(buildFile.entries, bmem.readPos)
           next == buildFile.entries[i]
           flagged == [buildFile EXCEPT !.entries[i].processed = TRUE]
       IN  IF i = 0
           THEN /\ bmem' = [bmem EXCEPT !.pc = "B_write"]
                /\ buildFile' = buildFile
           ELSE IF MapHas(bmem.map, next.key)
           THEN /\ bmem' = [bmem EXCEPT !.map = MapPush(@, next.key, next.rp),
                                        !.processedValues = @ + 1, !.readPos = i]
                /\ buildFile' = flagged
           ELSE IF bmem.processedValues + 1 < maxValues
           THEN /\ bmem' = [bmem EXCEPT !.map = MapSet(@, next.key, next.rp),
                                        !.processedValues = @ + 1, !.readPos = i]
                /\ buildFile' = flagged
           ELSE /\ bmem' = [bmem EXCEPT !.more = TRUE, !.readPos = i - 1,
                                        !.pc = "B_write"]
                /\ buildFile' = buildFile
    /\ UNCHANGED <<bKey, runFiles, mergeFile, indexFile, crashes, lockState>>
    /\ UNCHANGED notBuild

\* nextBatch: append the sorted map to batch file batchNr; next batch if more,
\* else open the merge file for output
WriteRunFile ==
    /\ bmem.pc = "B_write"
    /\ runFiles' = [runFiles EXCEPT ![bmem.batchNr] =
                        [exists |-> TRUE, entries |-> @.entries \o SortedMap(bmem.map)]]
    /\ IF bmem.more
       THEN /\ bmem' = [bmem EXCEPT !.pc = "B", !.batchNr = @ + 1, !.map = <<>>,
                                    !.processedValues = 0, !.more = FALSE]
            /\ mergeFile' = mergeFile
       ELSE /\ bmem' = [bmem EXCEPT !.pc = "C_load"]
            /\ mergeFile' = [mergeFile EXCEPT !.exists = TRUE]
    /\ UNCHANGED <<bKey, buildFile, indexFile, crashes, lockState>>
    /\ UNCHANGED notBuild

\* loadEntries: the first entry of every batch file; a batch left without an
\* entry makes the initial sort throw
LoadEntries ==
    /\ bmem.pc = "C_load"
    /\ LET n == bmem.batchNr
           m0 == [epb |-> [b \in 1..n |-> NoEntry], rpos |-> [b \in 1..n |-> 0],
                  sorted |-> <<>>]
           m == loadAll(m0, runFiles, 1, n)
       IN  IF \E b \in 1..n : m.epb[b] = NoEntry
           THEN bmem' = [bmem EXCEPT !.pc = "caught", !.error = "type",
                                     !.epb = m.epb, !.rpos = m.rpos]
           ELSE bmem' = [bmem EXCEPT !.pc = "C_merge", !.epb = m.epb, !.rpos = m.rpos,
                                     !.sorted = SortedIndexesFrom(m.epb, 1)]
    /\ UNCHANGED <<bKey, buildFile, runFiles, mergeFile, indexFile, crashes, lockState>>
    /\ UNCHANGED notBuild

\* writeSmallestEntry: append the smallest entry to the merge file and load
\* the next entry of its batch; end the output when no entry is left
WriteSmallestEntry ==
    /\ bmem.pc = "C_merge"
    /\ IF bmem.sorted = <<>>
       THEN /\ bmem' = [bmem EXCEPT !.pc = "C_rm"]
            /\ mergeFile' = mergeFile
       ELSE LET b == bmem.sorted[1]
                m == loadEntry([epb |-> bmem.epb, rpos |-> bmem.rpos,
                                sorted |-> bmem.sorted], runFiles, b)
            IN  /\ mergeFile' = [mergeFile EXCEPT !.entries = Append(@, bmem.epb[b])]
                /\ bmem' = [bmem EXCEPT !.epb = m.epb, !.rpos = m.rpos,
                                        !.sorted = m.sorted]
    /\ UNCHANGED <<bKey, buildFile, runFiles, indexFile, crashes, lockState>>
    /\ UNCHANGED notBuild

\* the batch files of this run are removed
RemoveRunFiles ==
    /\ bmem.pc = "C_rm"
    /\ runFiles' = [n \in RunNrs |-> IF n <= bmem.batchNr THEN NoFile ELSE runFiles[n]]
    /\ bmem' = [bmem EXCEPT !.pc = "D_open"]
    /\ UNCHANGED <<bKey, buildFile, mergeFile, indexFile, crashes, lockState>>
    /\ UNCHANGED notBuild

\* open the merge file to read and the index file to write, rm the build file
OpenIndexFile ==
    /\ bmem.pc = "D_open"
    /\ indexFile' = EmptyIndexFile
    /\ buildFile' = NoFile
    /\ bmem' = [bmem EXCEPT !.pc = "D_create"]
    /\ UNCHANGED <<bKey, runFiles, mergeFile, crashes, lockState>>
    /\ UNCHANGED notBuild

\* BinaryBPlusTree.createFromEntryStream over the merge file
CreateIndex ==
    /\ bmem.pc = "D_create"
    /\ indexFile' = createFromEntryStream(mergeFile.entries)
    /\ bmem' = [bmem EXCEPT !.pc = "D_rm"]
    /\ UNCHANGED <<bKey, buildFile, runFiles, mergeFile, crashes, lockState>>
    /\ UNCHANGED notBuild

\* pfs.rm(mergeFile)
RemoveMergeFile ==
    /\ bmem.pc = "D_rm"
    /\ mergeFile' = NoFile
    /\ bmem' = [bmem EXCEPT !.pc = "built"]
    /\ UNCHANGED <<bKey, buildFile, runFiles, indexFile, crashes, lockState>>
    /\ UNCHANGED notBuild

\* a file operation of the running stage fails: the chain goes to the last catch
IoFail ==
    /\ BuildRunning
    /\ bmem.pc # "built"
    /\ bmem' = [bmem EXCEPT !.pc = "caught", !.error = "io"]
    /\ UNCHANGED <<bKey, buildFile, runFiles, mergeFile, indexFile, crashes, lockState>>
    /\ UNCHANGED notBuild

\* the end of the chain: the last catch has logged the error if there was
\* one; the lock is released and the promise resolves with the index
Settle ==
    /\ bmem.pc \in {"built", "caught"}
    /\ lockState' = ReleasedState(lockState, lockQueue)
    /\ bmem' = [bmem EXCEPT !.pc = "done", !.outcome = "resolved"]
    /\ UNCHANGED <<bKey, buildFile, runFiles, mergeFile, indexFile, crashes>>
    /\ UNCHANGED notBuild

\* the process stops: memory is lost, the files stay as they are
Crash ==
    /\ BuildRunning
    /\ crashes < MaxCrashes
    /\ crashes' = crashes + 1
    /\ bmem' = IdleBuild
    /\ lockState' = InitLockState
    /\ UNCHANGED <<bKey, buildFile, runFiles, mergeFile, indexFile>>
    /\ UNCHANGED notBuild

NextBuild ==
    \/ BuildStart
    \/ WriteBuildEntry
    \/ CreateMergeFile
    \/ NextEntry
    \/ WriteRunFile
    \/ LoadEntries
    \/ WriteSmallestEntry
    \/ RemoveRunFiles
    \/ OpenIndexFile
    \/ CreateIndex
    \/ RemoveMergeFile
    \/ IoFail
    \/ Settle
    \/ Crash

SpecBuild == InitBuild /\ [][NextBuild]_vars

(***************************************************************************)
(* SpecArray: updates and 'contains' queries on an array index             *)
(***************************************************************************)
InitArray ==
    /\ lockState = InitLockState
    /\ lockQueue = <<>>
    /\ lkHolders = {}
    /\ lkGranted = {}
    /\ lkNext = 1
    /\ store = InitStore
    /\ tree = EmptyTree
    /\ cache = EmptyCache
    /\ proc = [p \in Procs |-> IdleProc]
    /\ updates = 0
    /\ failures = 0
    /\ bKey = [r \in SeqRange(BuildRecs) |-> NoKey]
    /\ buildFile = NoFile
    /\ runFiles = [n \in RunNrs |-> NoFile]
    /\ mergeFile = NoFile
    /\ indexFile = EmptyIndexFile
    /\ bmem = IdleBuild
    /\ crashes = 0
    /\ arrays = [r \in Recs |-> <<>>]
    /\ arrayUnique \in BOOLEAN
    /\ arrayResult = [asked |-> FALSE]
    /\ arrayUpdates = 0
    /\ ftTexts = [r \in SeqRange(FtRecs) |-> <<>>]
    /\ ftTree = EmptyFtTree
    /\ ftCache = EmptyFtCache
    /\ ftParsed = {}
    /\ ftResult = [asked |-> FALSE]
    /\ ftUpdates = 0
    /\ ftQueries = 0
    /\ takeLeaves = <<<<>>>>
    /\ takeResult = [asked |-> FALSE]
    /\ qVals = [n \in 1..MaxNodes |-> [a |-> 1, b |-> 1]]
    /\ qIndex = FALSE
    /\ qResult = [asked |-> FALSE]
    /\ rpInput = [path |-> <<65>>, wildcards |-> <<>>, key |-> <<65>>]
    /\ rpStored = <<>>
    /\ rpParsed = [done |-> FALSE]
    /\ wnInline = [k \in WriteKeys |-> NoProp]
    /\ wnRecords = [k \in WriteKeys |-> NoProp]
    /\ wnLast = [written |-> FALSE]
    /\ wnWrites = 0
    /\ cServed = [asked |-> FALSE]
    /\ btUpdate = [old |-> <<>>, new |-> <<>>, started |-> FALSE]
    /\ btBatches = <<>>
    /\ btLog = <<>>
    /\ btFailures = 0
    /\ maxValues = 2
    /\ idxOpen = 0
    /\ fdOpen = FALSE
    /\ hPc = [p \in Procs |-> "idle"]
    /\ hOps = 0
    /\ ftWordCache = {}
    /\ upIndex = [type |-> "normal", includeKeys |-> <<>>]
    /\ upStored = [null |-> TRUE, key |-> Null, inc |-> Null]
    /\ upLast = [called |-> FALSE]
    /\ exSliding = FALSE
    /\ exClock = 0
    /\ exEntry = [exists |-> FALSE]
    /\ exTimers = {}
    /\ exPc = [p \in Procs |-> "idle"]
    /\ exNext = 1
    /\ exRemoved = [removed |-> FALSE]
    /\ maxEntriesPerNode = 2
    /\ uniqueKeys = FALSE
    /\ treeLeaves = <<[entries |-> <<>>, low |-> 0, id |-> 1, prevLeaf |-> 0, nextLeaf |-> 0]>>
    /\ leafThrown = FALSE
    /\ crLength = 0
    /\ crMaxEntries = NotGiven
    /\ crFillFactor = 100
    /\ crLeaves = <<>>
    /\ crNodes = <<>>
    /\ crPc = "start"
    /\ qsInput = <<>>
    /\ qsArr = <<>>
    /\ qsStack = <<>>
    /\ qsShell = [start |-> 0, end |-> 0, inc |-> 0, i |-> 0]
    /\ qsPc = "start"
    /\ qsPart = [start |-> 0, end |-> 0, depth |-> 0, i |-> 0, j |-> 0, pivot |-> 0]
    /\ qsI = 0
    /\ mnStore = [r \in Recs |-> Null]
    /\ mnMatched = {}
    /\ mnPending = {}
    /\ mnEvent = [name |-> "none"]
    /\ mnCalls = 0
    /\ gnParent = NoRecord
    /\ gnLast = [op |-> "none"]
    /\ buUnique = FALSE
    /\ buList = [k \in BuilderKeys |-> <<>>]
    /\ buThrown = FALSE

\* ArrayIndex.handleRecordUpdate(path, old, new) with the operations of its
\* super.handleRecordUpdate calls applied in the order of the calls
ArrayHandleRecordUpdate(r, newEntries) ==
    /\ arrayUpdates < MaxArrayUpdates
    /\ newEntries # arrays[r]
    /\ arrayUpdates' = arrayUpdates + 1
    /\ LET ops == ArrayOps(arrays[r], newEntries, r)
       IN  /\ tree' = ApplyArrayOps(arrayUnique, tree, ops)
           /\ cache' = IF ops # <<>> THEN EmptyCache ELSE cache
    /\ arrays' = [arrays EXCEPT ![r] = newEntries]
    /\ arrayResult' = [asked |-> FALSE]
    /\ UNCHANGED arrayUnique
    /\ UNCHANGED notArray

\* ArrayIndex.query('contains', val): DataIndex.query('==', val)
ArrayQuery(val) ==
    /\ LET key == toLocaleLowerCase(val)
           hit == cache[<<"==", key>>]
           entries == IF hit.cached THEN hit.entries ELSE Search(tree, "==", key)
       IN  /\ arrayResult' = [asked |-> TRUE, val |-> val, recs |-> ResultRecs(entries)]
           /\ cache' = [cache EXCEPT ![<<"==", key>>] =
                           [cached |-> TRUE, entries |-> entries, outdated |-> FALSE]]
    /\ UNCHANGED <<tree, arrays, arrayUnique, arrayUpdates>>
    /\ UNCHANGED notArray

NextArray ==
    \/ \E r \in Recs, a \in Arrays : ArrayHandleRecordUpdate(r, a)
    \/ \E val \in ArrayElems : ArrayQuery(val)

SpecArray == InitArray /\ [][NextArray]_vars

(***************************************************************************)
(* SpecFT: text updates and queries on a fulltext index                    *)
(***************************************************************************)

\* FullTextIndex.handleRecordUpdate(path, old, new); every
\* super.handleRecordUpdate call clears the cache
FtHandleRecordUpdate(r, newText) ==
    /\ ftUpdates < MaxFtUpdates
    /\ newText # ftTexts[r]
    /\ ftUpdates' = ftUpdates + 1
    /\ ftTexts' = [ftTexts EXCEPT ![r] = newText]
    /\ ftTree' = FtUpdateTree(ftTree, r, ftTexts[r], newText)
    /\ ftCache' = EmptyFtCache
    /\ ftParsed' = {}
    /\ ftWordCache' = {}
    /\ ftResult' = [asked |-> FALSE]
    /\ UNCHANGED ftQueries
    /\ UNCHANGED notFT

\* FullTextIndex.query('fulltext:contains', val) of one part
FtQueryOne(part) ==
    /\ ftQueries < MaxFtQueries
    /\ ftQueries' = ftQueries + 1
    /\ \E q \in {QueryPart(ftTree, [cache |-> ftCache, parsed |-> ftParsed], part)} :
           /\ ftCache' = q.cache
           /\ ftParsed' = q.parsed
           /\ ftWordCache' = ftWordCache \cup q.searched
           /\ ftResult' = [asked |-> TRUE, query |-> <<part>>, error |-> q.error,
                           paths |-> Paths(q.results),
                           parts |-> <<SeqRange(Paths(q.results))>>]
    /\ UNCHANGED <<ftTexts, ftTree, ftUpdates>>
    /\ UNCHANGED notFT

\* FullTextIndex.query('fulltext:contains', 'q1 OR q2'); the first result set
\* is the array the cache holds for q1
FtQueryOr(part1, part2) ==
    /\ ftQueries < MaxFtQueries
    /\ ftQueries' = ftQueries + 1
    /\ \E q1 \in {QueryPart(ftTree, [cache |-> ftCache, parsed |-> ftParsed], part1)} :
       \E q2 \in {QueryPart(ftTree, [cache |-> q1.cache, parsed |-> q1.parsed], part2)} :
       \E merged \in {PushNew(q1.results, q2.results)} :
           /\ ftCache' = [q2.cache EXCEPT ![part1.words].results = merged]
           /\ ftParsed' = q2.parsed
           /\ ftWordCache' = ftWordCache \cup q1.searched \cup q2.searched
           /\ ftResult' = [asked |-> TRUE, query |-> <<part1, part2>>,
                           error |-> q1.error \/ q2.error,
                           paths |-> Paths(merged),
                           parts |-> <<SeqRange(Paths(q1.results)),
                                       SeqRange(Paths(q2.results))>>]
    /\ UNCHANGED <<ftTexts, ftTree, ftUpdates>>
    /\ UNCHANGED notFT

NextFT ==
    \/ \E r \in SeqRange(FtRecs), text \in Texts : FtHandleRecordUpdate(r, text)
    \/ \E part \in PlainParts \cup PhraseParts : FtQueryOne(part)
    \/ \E q \in OrQueries : FtQueryOr(q[1], q[2])

SpecFT == Init /\ [][NextFT]_vars

(***************************************************************************)
(* Claims about the lock (SpecLock)                                        *)
(***************************************************************************)
LkWriters == {l \in lkHolders : l.forWriting}
LkReaders == {l \in lkHolders : ~l.forWriting}

\* C1: at every moment the lock is held by nobody, by readers only, or by
\* exactly one writer and no reader.
C1_MutualExclusion ==
    /\ Cardinality(LkWriters) <= 1
    /\ LkWriters # {} => LkReaders = {}

\* C5: while a writer waits in the queue, no reader that asked for the lock
\* after that writer has been granted it, and queued requests are granted in
\* the order of their _lock calls (requests are numbered in that order).
C5_WriterNotOvertaken ==
    \A i \in 1..Len(lockQueue) :
        /\ lockQueue[i].forWriting =>
              \A g \in lkGranted : ~g.forWriting => g.id < lockQueue[i].id
        /\ \A g \in lkGranted : g.queued => g.id < lockQueue[i].id

\* C5 witness: a writer that had to queue has been granted the lock while a
\* reader that asked after it is still waiting.
C5_Witness ==
    \E g \in lkGranted :
        /\ g.forWriting /\ g.queued
        /\ \E i \in 1..Len(lockQueue) :
              ~lockQueue[i].forWriting /\ lockQueue[i].id > g.id

(***************************************************************************)
(* Claims about concurrent queries and updates (Spec)                      *)
(***************************************************************************)
\* C2: a query returns entries read from the tree no earlier than the last
\* mutation that preceded the query; it never returns a cache entry that was
\* computed from the tree as it was before that mutation.
C2_CacheCoherence ==
    \A p \in Procs : proc[p].pc = "q_done" => ~proc[p].stale

\* C3: no query and no count reads the tree while the batch of some update
\* has been applied in part only.
C3_BatchAtomic ==
    \A p \in Procs :
        proc[p].pc \in {"q_read", "q_done", "c_done"} => ~proc[p].partial

\* C4: when _processTreeOperations resolves, every operation of the batch has
\* been applied to the tree exactly once, also after a failed transaction and
\* a rebuild.
C4_AppliedOnce ==
    \A p \in Procs :
        proc[p].pc = "u_done" =>
            \A i \in 1..Len(proc[p].done) : proc[p].done[i] = 1

\* C4 witness: an update of two operations has resolved after a transaction
\* that failed part-way and a rebuild.
C4_Witness ==
    \E p \in Procs :
        /\ proc[p].pc = "u_done"
        /\ proc[p].rebuilt
        /\ Len(proc[p].done) = 2

(***************************************************************************)
(* Claims about build() (SpecBuild)                                        *)
(***************************************************************************)
BuildFinished == bmem.pc = "done" /\ bmem.error = "none"

\* C6: when the process has stopped during build() and build() has been run
\* again to its end, the index holds every indexable record exactly once.
C6_ResumeExactlyOnce ==
    (BuildFinished /\ crashes > 0) =>
        \A r \in SeqRange(BuildRecs) :
            indexFile[r] = IF bKey[r] # NoKey THEN 1 ELSE 0

\* C7: when a stage of build() has failed with an I/O error, the promise
\* build() returned is rejected.
C7_FailureSurfaced ==
    (bmem.pc = "done" /\ bmem.error = "io") => bmem.outcome = "rejected"

(***************************************************************************)
(* Claims about the array index (SpecArray)                                *)
(***************************************************************************)
\* C8: after array updates, query('contains', x) returns a record if and only
\* if x is an element of the record's current array (elements and x compared
\* as the index stores them, in lower case).
C8_ContainsIffElement ==
    (arrayResult.asked /\ arrayUpdates > 0) =>
        \A r \in Recs :
            r \in arrayResult.recs <=>
                \E i \in 1..Len(arrays[r]) :
                    toLocaleLowerCase(arrays[r][i]) = toLocaleLowerCase(arrayResult.val)

(***************************************************************************)
(* Claims about the fulltext index (SpecFT)                                *)
(***************************************************************************)
\* the text holds the words at consecutive positions p, p+1, ...
PhraseIn(text, words) ==
    \E p \in 1..Len(text) :
        /\ p + Len(words) - 1 <= Len(text)
        /\ \A k \in 1..Len(words) : text[p + k - 1] = words[k]

\* C9: a phrase query for w1 ... wn returns exactly the records whose text
\* holds w1 ... wn at consecutive positions.
C9_PhraseExact ==
    (ftResult.asked /\ Len(ftResult.query) = 1 /\ ftResult.query[1].phrase) =>
        /\ ~ftResult.error
        /\ SeqRange(ftResult.paths) =
               {r \in SeqRange(FtRecs) : PhraseIn(ftTexts[r], ftResult.query[1].words)}

\* C10: a query 'q1 OR q2' returns the union of the results of q1 and q2, by
\* record path and without a path twice.
C10_OrUnion ==
    (ftResult.asked /\ Len(ftResult.query) > 1) =>
        /\ ~ftResult.error
        /\ SeqRange(ftResult.paths) = ftResult.parts[1] \cup ftResult.parts[2]
        /\ \A i, j \in 1..Len(ftResult.paths) :
               ftResult.paths[i] = ftResult.paths[j] => i = j


(***************************************************************************)
(* SpecTake: DataIndex.take over the leaves of a tree                      *)
(***************************************************************************)
\* largest key of the trees take is run on
MaxTakeKey == 3
\* largest number of values one entry holds
MaxEntryValues == 2
\* largest number of entries in one leaf
MaxLeafEntries == 2
\* largest skip and take arguments
MaxSkip == 3
MaxTake == 3

notTake == <<lockVars, lkVars, ixVars, buildVars, arrayVars, ftVars, queryVars, pointerVars, writeVars, cacheVars, batchVars, capVars, handleVars, ftWordVars, updateVars, expiryVars, leafVars, createVars, sortVars, sortLocalVars, monitorVars, getVars, builderVars>>

\* the values of one entry: record pointers, told apart by key and position
EntryValues(key, n) == [j \in 1..n |-> <<key, j>>]
LeafEntry(key, n) == [key |-> key, values |-> EntryValues(key, n)]

\* the entries of a tree in which key k holds counts[k] values, ascending
RECURSIVE EntriesFrom(_, _)
EntriesFrom(counts, k) ==
    IF k > MaxTakeKey THEN <<>>
    ELSE IF counts[k] = 0 THEN EntriesFrom(counts, k + 1)
    ELSE <<LeafEntry(k, counts[k])>> \o EntriesFrom(counts, k + 1)

\* the entries cut into leaves of n entries; an empty tree is one empty leaf
RECURSIVE LeavesOf(_, _)
LeavesOf(es, n) ==
    IF Len(es) <= n THEN <<es>>
    ELSE <<SubSeq(es, 1, n)>> \o LeavesOf(SubSeq(es, n + 1, Len(es)), n)

LeafChains ==
    {LeavesOf(EntriesFrom(counts, 1), n) :
        counts \in [1..MaxTakeKey -> 0..MaxEntryValues], n \in 1..MaxLeafEntries}

\* leaf.entries.reverse()
RECURSIVE Reverse(_)
Reverse(s) == IF s = <<>> THEN <<>> ELSE Reverse(Tail(s)) \o <<Head(s)>>

\* the values of the entries in the order the two for loops of processLeaf
\* visit them, each with its entry's key
RECURSIVE LeafValues(_)
LeafValues(entries) ==
    IF entries = <<>> THEN <<>>
    ELSE [j \in 1..Len(Head(entries).values) |->
              [key |-> Head(entries).key, recordPointer |-> Head(entries).values[j]]]
         \o LeafValues(Tail(entries))

\* the loops of processLeaf over one leaf: skip while skipped < skip, push,
\* and stop as soon as results.length === take
RECURSIVE ScanLeaf(_, _, _, _, _, _)
ScanLeaf(vs, i, skip, take, skipped, results) ==
    IF i > Len(vs) THEN [results |-> results, skipped |-> skipped, full |-> FALSE]
    ELSE IF skipped < skip THEN ScanLeaf(vs, i + 1, skip, take, skipped + 1, results)
    ELSE IF Len(results) + 1 = take
         THEN [results |-> Append(results, vs[i]), skipped |-> skipped, full |-> TRUE]
         ELSE ScanLeaf(vs, i + 1, skip, take, skipped, Append(results, vs[i]))

\* processLeaf from leaf li on: getNext / getPrevious until the chain ends
RECURSIVE processLeaf(_, _, _, _, _, _, _)
AfterLeaf(leaves, li, skip, take, ascending, s) ==
    IF s.full THEN s.results
    ELSE IF ascending /\ li < Len(leaves)
         THEN processLeaf(leaves, li + 1, skip, take, ascending, s.skipped, s.results)
    ELSE IF ~ascending /\ li > 1
         THEN processLeaf(leaves, li - 1, skip, take, ascending, s.skipped, s.results)
    ELSE s.results
processLeaf(leaves, li, skip, take, ascending, skipped, results) ==
    AfterLeaf(leaves, li, skip, take, ascending,
              ScanLeaf(LeafValues(IF ascending THEN leaves[li] ELSE Reverse(leaves[li])),
                       1, skip, take, skipped, results))

\* take(skip, take, ascending): tree.getFirstLeaf() or tree.getLastLeaf(), then
\* processLeaf
take(leaves, skip, n, ascending) ==
    processLeaf(leaves, IF ascending THEN 1 ELSE Len(leaves), skip, n, ascending, 0, <<>>)

InitTake ==
    /\ lockState = InitLockState
    /\ lockQueue = <<>>
    /\ lkHolders = {}
    /\ lkGranted = {}
    /\ lkNext = 1
    /\ store = InitStore
    /\ tree = EmptyTree
    /\ cache = EmptyCache
    /\ proc = [p \in Procs |-> IdleProc]
    /\ updates = 0
    /\ failures = 0
    /\ bKey = [r \in SeqRange(BuildRecs) |-> NoKey]
    /\ buildFile = NoFile
    /\ runFiles = [n \in RunNrs |-> NoFile]
    /\ mergeFile = NoFile
    /\ indexFile = EmptyIndexFile
    /\ bmem = IdleBuild
    /\ crashes = 0
    /\ arrays = [r \in Recs |-> <<>>]
    /\ arrayUnique = FALSE
    /\ arrayResult = [asked |-> FALSE]
    /\ arrayUpdates = 0
    /\ ftTexts = [r \in SeqRange(FtRecs) |-> <<>>]
    /\ ftTree = EmptyFtTree
    /\ ftCache = EmptyFtCache
    /\ ftParsed = {}
    /\ ftResult = [asked |-> FALSE]
    /\ ftUpdates = 0
    /\ ftQueries = 0
    /\ takeLeaves \in LeafChains
    /\ takeResult = [asked |-> FALSE]
    /\ qVals = [n \in 1..MaxNodes |-> [a |-> 1, b |-> 1]]
    /\ qIndex = FALSE
    /\ qResult = [asked |-> FALSE]
    /\ rpInput = [path |-> <<65>>, wildcards |-> <<>>, key |-> <<65>>]
    /\ rpStored = <<>>
    /\ rpParsed = [done |-> FALSE]
    /\ wnInline = [k \in WriteKeys |-> NoProp]
    /\ wnRecords = [k \in WriteKeys |-> NoProp]
    /\ wnLast = [written |-> FALSE]
    /\ wnWrites = 0
    /\ cServed = [asked |-> FALSE]
    /\ btUpdate = [old |-> <<>>, new |-> <<>>, started |-> FALSE]
    /\ btBatches = <<>>
    /\ btLog = <<>>
    /\ btFailures = 0
    /\ maxValues = 2
    /\ idxOpen = 0
    /\ fdOpen = FALSE
    /\ hPc = [p \in Procs |-> "idle"]
    /\ hOps = 0
    /\ ftWordCache = {}
    /\ upIndex = [type |-> "normal", includeKeys |-> <<>>]
    /\ upStored = [null |-> TRUE, key |-> Null, inc |-> Null]
    /\ upLast = [called |-> FALSE]
    /\ exSliding = FALSE
    /\ exClock = 0
    /\ exEntry = [exists |-> FALSE]
    /\ exTimers = {}
    /\ exPc = [p \in Procs |-> "idle"]
    /\ exNext = 1
    /\ exRemoved = [removed |-> FALSE]
    /\ maxEntriesPerNode = 2
    /\ uniqueKeys = FALSE
    /\ treeLeaves = <<[entries |-> <<>>, low |-> 0, id |-> 1, prevLeaf |-> 0, nextLeaf |-> 0]>>
    /\ leafThrown = FALSE
    /\ crLength = 0
    /\ crMaxEntries = NotGiven
    /\ crFillFactor = 100
    /\ crLeaves = <<>>
    /\ crNodes = <<>>
    /\ crPc = "start"
    /\ qsInput = <<>>
    /\ qsArr = <<>>
    /\ qsStack = <<>>
    /\ qsShell = [start |-> 0, end |-> 0, inc |-> 0, i |-> 0]
    /\ qsPc = "start"
    /\ qsPart = [start |-> 0, end |-> 0, depth |-> 0, i |-> 0, j |-> 0, pivot |-> 0]
    /\ qsI = 0
    /\ mnStore = [r \in Recs |-> Null]
    /\ mnMatched = {}
    /\ mnPending = {}
    /\ mnEvent = [name |-> "none"]
    /\ mnCalls = 0
    /\ gnParent = NoRecord
    /\ gnLast = [op |-> "none"]
    /\ buUnique = FALSE
    /\ buList = [k \in BuilderKeys |-> <<>>]
    /\ buThrown = FALSE

\* a caller runs take(skip, take, ascending) under a read lock it gets at once
\* and releases when done
Take(skip, n, ascending) ==
    /\ ~lockState.isLocked
    /\ takeResult' = [asked |-> TRUE, skip |-> skip, take |-> n, ascending |-> ascending,
                      results |-> take(takeLeaves, skip, n, ascending)]
    /\ UNCHANGED <<takeLeaves, notTake>>

NextTake == \E skip \in 0..MaxSkip, n \in 0..MaxTake, ascending \in BOOLEAN : Take(skip, n, ascending)

SpecTake == InitTake /\ [][NextTake]_vars

\* all values of the tree in ascending key order, or with the keys descending
RECURSIVE AllLeafValues(_)
AllLeafValues(leaves) ==
    IF leaves = <<>> THEN <<>> ELSE LeafValues(Head(leaves)) \o AllLeafValues(Tail(leaves))
RECURSIVE AllLeafEntries(_)
AllLeafEntries(leaves) ==
    IF leaves = <<>> THEN <<>> ELSE Head(leaves) \o AllLeafEntries(Tail(leaves))
Ranked(leaves, ascending) ==
    IF ascending THEN AllLeafValues(leaves) ELSE LeafValues(Reverse(AllLeafEntries(leaves)))
Min(a, b) == IF a < b THEN a ELSE b

\* C11: take(skip, take, ascending) returns the values at ranks skip+1 ..
\* skip+take of the leaf chain in ascending or descending key order: at most
\* take results, fewer only when the index holds fewer than skip+take values
C11_TakeRanks ==
    takeResult.asked =>
        takeResult.results =
            SubSeq(Ranked(takeLeaves, takeResult.ascending), takeResult.skip + 1,
                   Min(takeResult.skip + takeResult.take,
                       Len(Ranked(takeLeaves, takeResult.ascending))))


(***************************************************************************)
(* SpecQuery: query() of src/ts/query.ts on a collection of child nodes    *)
(* with properties a and b, filters a == x and b == y, a sort order, skip  *)
(* and take, with or without a normal index on key a                       *)
(***************************************************************************)
\* largest skip and take of a query
MaxQuerySkip == 1
MaxQueryTake == 2
\* query.take = 100, the default of a filterless query without take
DefaultTake == 100

notQuery == <<lockVars, lkVars, ixVars, buildVars, arrayVars, ftVars, takeVars, pointerVars, writeVars, cacheVars, batchVars, capVars, handleVars, ftWordVars, updateVars, expiryVars, leafVars, createVars, sortVars, sortLocalVars, monitorVars, getVars, builderVars>>

NoFilter == 0
QueryKeys == {"a", "b"}
\* query.order: one or two distinct keys, all ascending or all descending
QueryOrders ==
    {<<[key |-> k, ascending |-> asc]>> : k \in QueryKeys, asc \in BOOLEAN}
    \cup {o \in {<<[key |-> k1, ascending |-> asc], [key |-> k2, ascending |-> asc]>> :
                    k1 \in QueryKeys, k2 \in QueryKeys, asc \in BOOLEAN} :
            o[1].key # o[2].key}
\* a query: filter a == fa and filter b == fb (NoFilter: no such filter)
Queries ==
    [fa : (1..MaxNodeVal) \cup {NoFilter}, fb : (1..MaxNodeVal) \cup {NoFilter},
     order : QueryOrders, skip : 0..MaxQuerySkip, take : 0..MaxQueryTake,
     snapshots : BOOLEAN]

\* the comparison function of sortMatches
RECURSIVE compare(_, _, _, _, _)
compare(vals, order, i, x, y) ==
    IF vals[x][order[i].key] = vals[y][order[i].key]
    THEN IF i < Len(order) THEN compare(vals, order, i + 1, x, y)
         ELSE IF x < y THEN -1 ELSE 1
    ELSE IF vals[x][order[i].key] < vals[y][order[i].key]
         THEN IF order[i].ascending THEN -1 ELSE 1
    ELSE IF order[i].ascending THEN 1 ELSE -1

\* matches.sort(...): x put where the comparison function places it
RECURSIVE InsertSorted(_, _, _, _)
InsertSorted(vals, order, s, x) ==
    IF s = <<>> THEN <<x>>
    ELSE IF compare(vals, order, 1, x, Head(s)) < 0 THEN <<x>> \o s
    ELSE <<Head(s)>> \o InsertSorted(vals, order, Tail(s), x)
RECURSIVE sortMatches(_, _, _)
sortMatches(vals, order, matches) ==
    IF matches = <<>> THEN <<>>
    ELSE InsertSorted(vals, order, sortMatches(vals, order, Tail(matches)), Head(matches))

\* array.slice(n) and array.slice(0, n)
SliceFrom(s, n) == SubSeq(s, n + 1, Len(s))
SliceTo(s, n) == SubSeq(s, 1, IF n < Len(s) THEN n ELSE Len(s))

\* the elements of s in the order their promises resolve: arrival gives each
\* node its turn
RECURSIVE InArrival(_, _, _)
InArrival(s, arrival, i) ==
    IF i > Len(arrival) THEN <<>>
    ELSE (IF arrival[i] \in SeqRange(s) THEN <<arrival[i]>> ELSE <<>>)
         \o InArrival(s, arrival, i + 1)
Arrivals == {p \in [1..MaxNodes -> 1..MaxNodes] : \A i, j \in 1..MaxNodes : p[i] = p[j] => i = j}

\* results.push(result) of loadResultsData and of the table scan, with the
\* toss of the last value after a sort once more than limit results are held
RECURSIVE PushToss(_, _, _, _, _, _)
PushToss(vals, order, incoming, results, toss, limit) ==
    IF incoming = <<>> THEN results
    ELSE IF toss /\ Len(results) + 1 > limit
         THEN PushToss(vals, order, Tail(incoming),
                       SliceTo(sortMatches(vals, order, Append(results, Head(incoming))),
                               Len(results)),
                       toss, limit)
    ELSE PushToss(vals, order, Tail(incoming), Append(results, Head(incoming)), toss, limit)

\* loadResultsData(preResults, options) with stepsExecuted as it is at the call
loadResultsData(vals, q, preResults, sorted, skipped, arrival) ==
    IF sorted THEN preResults
    ELSE PushToss(vals, q.order, InArrival(preResults, arrival, 1), <<>>,
                  ~skipped, q.skip + q.take)

\* the leaves of the index on key a: per value of a the paths holding it
RECURSIVE PathsWith(_, _, _)
PathsWith(vals, k, n) ==
    IF n > MaxNodes THEN <<>>
    ELSE (IF vals[n].a = k THEN <<n>> ELSE <<>>) \o PathsWith(vals, k, n + 1)
RECURSIVE IndexEntriesFrom(_, _)
IndexEntriesFrom(vals, k) ==
    IF k > MaxNodeVal THEN <<>>
    ELSE (IF PathsWith(vals, k, 1) = <<>> THEN <<>>
          ELSE <<[key |-> k, values |-> PathsWith(vals, k, 1)]>>)
         \o IndexEntriesFrom(vals, k + 1)
IndexLeaves(vals) == LeavesOf(IndexEntriesFrom(vals, 1), MaxLeafEntries)

\* the paths of an index result set
RECURSIVE ResultPaths(_)
ResultPaths(results) ==
    IF results = <<>> THEN <<>>
    ELSE <<Head(results).recordPointer>> \o ResultPaths(Tail(results))

\* query.take after the default of a filterless query is applied
QueryTake(q) == IF q.fa = NoFilter /\ q.fb = NoFilter /\ q.take = 0 THEN DefaultTake ELSE q.take
Filterless(q) == q.fa = NoFilter /\ q.fb = NoFilter
\* the filter on a is run on the index when there is one
IndexFilter(q, indexed) == indexed /\ q.fa # NoFilter
\* querySort[0].index: an index is assigned to a sort only in a filterless
\* query with take, and only to the sort on key a
SortIndex(q, indexed) == indexed /\ Filterless(q) /\ q.take # 0 /\ q.order[1].key = "a"
EverySortIndexed(q, indexed) == SortIndex(q, indexed) /\ Len(q.order) = 1
\* filters left for api.storage.matchNode
tableScanFilters(q, indexed) ==
    (IF q.fa # NoFilter /\ ~indexed THEN {"a"} ELSE {}) \cup (IF q.fb # NoFilter THEN {"b"} ELSE {})
matchNode(vals, q, filters, n) ==
    /\ "a" \in filters => vals[n].a = q.fa
    /\ "b" \in filters => vals[n].b = q.fb

SliceFromIf(s, cond, n) == IF cond THEN SliceFrom(s, n) ELSE s
SliceToIf(s, cond, n) == IF cond THEN SliceTo(s, n) ELSE s
\* skip and take applied to a list, as every branch of query does it
Limit(s, doSkip, skip, doTake, n) ==
    SliceToIf(SliceFromIf(s, doSkip, skip), doTake, n)


\* filter.index.query('==', q.fa): the values of the entry with that key
indexQuery(vals, q) == PathsWith(vals, q.fa, 1)

\* the branch for index results with no filter left: sort, skip and take on
\* the loaded results, skip and take applied whatever stepsExecuted says
SortLoaded(vals, q, loaded) ==
    Limit(sortMatches(vals, q.order, loaded), q.skip > 0, q.skip,
          QueryTake(q) # 0, QueryTake(q))

\* a sort index was used: sortIndex.take has skipped, taken and sorted
SortIndexQuery(vals, q, indexedResults, everySortIndexed) ==
    IF everySortIndexed THEN indexedResults
    ELSE IF q.snapshots
         THEN SortLoaded(vals, q, indexedResults)
    ELSE indexedResults

\* the children the table scan visits: those of the index results, or all of
\* them when there is no key filter
RECURSIVE AllNodesFrom(_)
AllNodesFrom(n) == IF n > MaxNodes THEN <<>> ELSE <<n>> \o AllNodesFrom(n + 1)
getChildren(indexKeyFilter) ==
    IF indexKeyFilter = <<>> THEN AllNodesFrom(1) ELSE indexKeyFilter
RECURSIVE Matching(_, _, _, _)
Matching(vals, q, filters, children) ==
    IF children = <<>> THEN <<>>
    ELSE (IF matchNode(vals, q, filters, Head(children)) THEN <<Head(children)>> ELSE <<>>)
         \o Matching(vals, q, filters, Tail(children))

\* the table scan: matches pushed as their promises resolve, the last one
\* tossed after a sort when more than take + skip are held, then sort, skip
\* and take
TableScan(vals, q, filters, indexedResults, arrival) ==
    Limit(sortMatches(vals, q.order,
              PushToss(vals, q.order,
                       InArrival(Matching(vals, q, filters, getChildren(indexedResults)),
                                 arrival, 1),
                       <<>>, QueryTake(q) # 0, QueryTake(q) + q.skip)),
          q.skip > 0, q.skip, QueryTake(q) # 0, QueryTake(q))

\* query(api, path, query, options): the paths of the results, in order
query(vals, indexed, q, arrival) ==
    IF SortIndex(q, indexed)
    THEN SortIndexQuery(vals, q,
             ResultPaths(take(IndexLeaves(vals), q.skip, QueryTake(q), q.order[1].ascending)),
             EverySortIndexed(q, indexed))
    ELSE IF IndexFilter(q, indexed) /\ tableScanFilters(q, indexed) = {}
    THEN SortLoaded(vals, q,
             loadResultsData(vals, q, indexQuery(vals, q), FALSE, q.skip = 0, arrival))
    ELSE IF IndexFilter(q, indexed)
    THEN TableScan(vals, q, tableScanFilters(q, indexed), indexQuery(vals, q), arrival)
    ELSE TableScan(vals, q, tableScanFilters(q, indexed), <<>>, arrival)

InitQuery ==
    /\ lockState = InitLockState
    /\ lockQueue = <<>>
    /\ lkHolders = {}
    /\ lkGranted = {}
    /\ lkNext = 1
    /\ store = InitStore
    /\ tree = EmptyTree
    /\ cache = EmptyCache
    /\ proc = [p \in Procs |-> IdleProc]
    /\ updates = 0
    /\ failures = 0
    /\ bKey = [r \in SeqRange(BuildRecs) |-> NoKey]
    /\ buildFile = NoFile
    /\ runFiles = [n \in RunNrs |-> NoFile]
    /\ mergeFile = NoFile
    /\ indexFile = EmptyIndexFile
    /\ bmem = IdleBuild
    /\ crashes = 0
    /\ arrays = [r \in Recs |-> <<>>]
    /\ arrayUnique = FALSE
    /\ arrayResult = [asked |-> FALSE]
    /\ arrayUpdates = 0
    /\ ftTexts = [r \in SeqRange(FtRecs) |-> <<>>]
    /\ ftTree = EmptyFtTree
    /\ ftCache = EmptyFtCache
    /\ ftParsed = {}
    /\ ftResult = [asked |-> FALSE]
    /\ ftUpdates = 0
    /\ ftQueries = 0
    /\ takeLeaves = <<<<>>>>
    /\ takeResult = [asked |-> FALSE]
    /\ qVals \in [1..MaxNodes -> [a : 1..MaxNodeVal, b : 1..MaxNodeVal]]
    /\ qIndex \in BOOLEAN
    /\ qResult = [asked |-> FALSE]
    /\ rpInput = [path |-> <<65>>, wildcards |-> <<>>, key |-> <<65>>]
    /\ rpStored = <<>>
    /\ rpParsed = [done |-> FALSE]
    /\ wnInline = [k \in WriteKeys |-> NoProp]
    /\ wnRecords = [k \in WriteKeys |-> NoProp]
    /\ wnLast = [written |-> FALSE]
    /\ wnWrites = 0
    /\ cServed = [asked |-> FALSE]
    /\ btUpdate = [old |-> <<>>, new |-> <<>>, started |-> FALSE]
    /\ btBatches = <<>>
    /\ btLog = <<>>
    /\ btFailures = 0
    /\ maxValues = 2
    /\ idxOpen = 0
    /\ fdOpen = FALSE
    /\ hPc = [p \in Procs |-> "idle"]
    /\ hOps = 0
    /\ ftWordCache = {}
    /\ upIndex = [type |-> "normal", includeKeys |-> <<>>]
    /\ upStored = [null |-> TRUE, key |-> Null, inc |-> Null]
    /\ upLast = [called |-> FALSE]
    /\ exSliding = FALSE
    /\ exClock = 0
    /\ exEntry = [exists |-> FALSE]
    /\ exTimers = {}
    /\ exPc = [p \in Procs |-> "idle"]
    /\ exNext = 1
    /\ exRemoved = [removed |-> FALSE]
    /\ maxEntriesPerNode = 2
    /\ uniqueKeys = FALSE
    /\ treeLeaves = <<[entries |-> <<>>, low |-> 0, id |-> 1, prevLeaf |-> 0, nextLeaf |-> 0]>>
    /\ leafThrown = FALSE
    /\ crLength = 0
    /\ crMaxEntries = NotGiven
    /\ crFillFactor = 100
    /\ crLeaves = <<>>
    /\ crNodes = <<>>
    /\ crPc = "start"
    /\ qsInput = <<>>
    /\ qsArr = <<>>
    /\ qsStack = <<>>
    /\ qsShell = [start |-> 0, end |-> 0, inc |-> 0, i |-> 0]
    /\ qsPc = "start"
    /\ qsPart = [start |-> 0, end |-> 0, depth |-> 0, i |-> 0, j |-> 0, pivot |-> 0]
    /\ qsI = 0
    /\ mnStore = [r \in Recs |-> Null]
    /\ mnMatched = {}
    /\ mnPending = {}
    /\ mnEvent = [name |-> "none"]
    /\ mnCalls = 0
    /\ gnParent = NoRecord
    /\ gnLast = [op |-> "none"]
    /\ buUnique = FALSE
    /\ buList = [k \in BuilderKeys |-> <<>>]
    /\ buThrown = FALSE

\* a client runs a query; the promises of its node reads resolve in any order.
\* A query changes nothing it reads, so one query per behaviour shows them all
Query(q, arrival) ==
    /\ ~qResult.asked
    /\ qResult' = [asked |-> TRUE, query |-> q, results |-> query(qVals, qIndex, q, arrival)]
    /\ UNCHANGED <<qVals, qIndex, notQuery>>

NextQuery == \E q \in Queries, arrival \in Arrivals : Query(q, arrival)

SpecQuery == InitQuery /\ [][NextQuery]_vars

\* the nodes that match the filters of the query, sorted by its order
MatchingNodes(vals, q) ==
    Matching(vals, q, (IF q.fa # NoFilter THEN {"a"} ELSE {}) \cup
                      (IF q.fb # NoFilter THEN {"b"} ELSE {}), AllNodesFrom(1))
SortedMatches(vals, q) == sortMatches(vals, q.order, MatchingNodes(vals, q))

\* C12: a query with a sort order, skip s and take t returns exactly the
\* elements s+1 .. s+t of the full sorted list of matching nodes, all
\* elements after the first s when filters are present and t = 0, whatever
\* combination of index scans, table scans and partial loading executes it
C12_SortSkipTake ==
    qResult.asked =>
        qResult.results =
            SliceToIf(SliceFrom(SortedMatches(qVals, qResult.query), qResult.query.skip),
                      QueryTake(qResult.query) # 0, QueryTake(qResult.query))


(***************************************************************************)
(* SpecPointer: a record pointer made by _createRecordPointer, written to  *)
(* the build file and parsed by _parseRecordPointer. Strings are sequences *)
(* of char codes                                                           *)
(***************************************************************************)
\* longest wildcard value and longest key
MaxWildcardLen == 1
MaxKeyLen == 2

notPointer == <<lockVars, lkVars, ixVars, buildVars, arrayVars, ftVars, takeVars, queryVars, writeVars, cacheVars, batchVars, capVars, handleVars, ftWordVars, updateVars, expiryVars, leafVars, createVars, sortVars, sortLocalVars, monitorVars, getVars, builderVars>>

\* the char codes of 'A', '*', '/' and of the euro sign
Chars == [A |-> 65, star |-> 42, slash |-> 47, euro |-> 8364]
KeyChars == {Chars.A, Chars.star, Chars.euro}
\* 'undefined', what a missing wildcard is replaced by
Undefined == <<117, 110, 100, 101, 102, 105, 110, 101, 100>>
\* index paths 'A', 'A/*' and '*/A/*'
IndexPaths ==
    {<<Chars.A>>, <<Chars.A, Chars.slash, Chars.star>>,
     <<Chars.star, Chars.slash, Chars.A, Chars.slash, Chars.star>>}
StringsUpTo(n) == UNION {[1..k -> KeyChars] : k \in 0..n}
Stars(path) == Cardinality({i \in 1..Len(path) : path[i] = Chars.star})
\* an index path, one wildcard value per * of it, and a child key
PointerInputs ==
    {in \in [path : IndexPaths,
             wildcards : UNION {[1..k -> StringsUpTo(MaxWildcardLen)] : k \in 0..2},
             key : StringsUpTo(MaxKeyLen) \ {<<>>}] :
        Len(in.wildcards) = Stars(in.path)}

\* wildcard_length and wildcard_bytes of every wildcard
RECURSIVE WildcardsInfo(_)
WildcardsInfo(wildcards) ==
    IF wildcards = <<>> THEN <<>>
    ELSE <<Len(Head(wildcards))>> \o Head(wildcards) \o WildcardsInfo(Tail(wildcards))
_createRecordPointer(wildcards, key) ==
    <<Len(wildcards)>> \o WildcardsInfo(wildcards) \o <<Len(key)>> \o key

\* Buffer.from(bytes): every number of the array kept modulo 256
BufferFrom(bytes) == [i \in 1..Len(bytes) |-> bytes[i] % 256]

\* the wildcards loop of _parseRecordPointer from position index on; positions
\* count from 1 here
RECURSIVE ParseWildcards(_, _, _)
ParseWildcards(recordPointer, index, n) ==
    IF n = 0 THEN <<>>
    ELSE <<SubSeq(recordPointer, index + 1, index + recordPointer[index])>>
         \o ParseWildcards(recordPointer, index + recordPointer[index] + 1, n - 1)
RECURSIVE IndexAfterWildcards(_, _, _)
IndexAfterWildcards(recordPointer, index, n) ==
    IF n = 0 THEN index
    ELSE IndexAfterWildcards(recordPointer, index + recordPointer[index] + 1, n - 1)
\* path.replace(/\*/g, ...): the i-th * becomes the i-th wildcard
RECURSIVE ReplaceStars(_, _, _)
ReplaceStars(path, wildcards, i) ==
    IF path = <<>> THEN <<>>
    ELSE IF Head(path) = Chars.star
         THEN (IF i <= Len(wildcards) THEN wildcards[i] ELSE Undefined)
              \o ReplaceStars(Tail(path), wildcards, i + 1)
    ELSE <<Head(path)>> \o ReplaceStars(Tail(path), wildcards, i)
ParsedPointer(path, wildcards, key) ==
    [done |-> TRUE, key |-> key, wildcards |-> wildcards,
     path |-> (IF Len(wildcards) > 0 THEN ReplaceStars(path, wildcards, 1) ELSE path)
              \o <<Chars.slash>> \o key]
KeyAt(recordPointer, index) == SubSeq(recordPointer, index + 1, index + recordPointer[index])
_parseRecordPointer(path, recordPointer) ==
    ParsedPointer(path, ParseWildcards(recordPointer, 2, recordPointer[1]),
                  KeyAt(recordPointer, IndexAfterWildcards(recordPointer, 2, recordPointer[1])))

InitPointer ==
    /\ lockState = InitLockState
    /\ lockQueue = <<>>
    /\ lkHolders = {}
    /\ lkGranted = {}
    /\ lkNext = 1
    /\ store = InitStore
    /\ tree = EmptyTree
    /\ cache = EmptyCache
    /\ proc = [p \in Procs |-> IdleProc]
    /\ updates = 0
    /\ failures = 0
    /\ bKey = [r \in SeqRange(BuildRecs) |-> NoKey]
    /\ buildFile = NoFile
    /\ runFiles = [n \in RunNrs |-> NoFile]
    /\ mergeFile = NoFile
    /\ indexFile = EmptyIndexFile
    /\ bmem = IdleBuild
    /\ crashes = 0
    /\ arrays = [r \in Recs |-> <<>>]
    /\ arrayUnique = FALSE
    /\ arrayResult = [asked |-> FALSE]
    /\ arrayUpdates = 0
    /\ ftTexts = [r \in SeqRange(FtRecs) |-> <<>>]
    /\ ftTree = EmptyFtTree
    /\ ftCache = EmptyFtCache
    /\ ftParsed = {}
    /\ ftResult = [asked |-> FALSE]
    /\ ftUpdates = 0
    /\ ftQueries = 0
    /\ takeLeaves = <<<<>>>>
    /\ takeResult = [asked |-> FALSE]
    /\ qVals = [n \in 1..MaxNodes |-> [a |-> 1, b |-> 1]]
    /\ qIndex = FALSE
    /\ qResult = [asked |-> FALSE]
    /\ rpInput \in PointerInputs
    /\ rpStored = <<>>
    /\ rpParsed = [done |-> FALSE]
    /\ wnInline = [k \in WriteKeys |-> NoProp]
    /\ wnRecords = [k \in WriteKeys |-> NoProp]
    /\ wnLast = [written |-> FALSE]
    /\ wnWrites = 0
    /\ cServed = [asked |-> FALSE]
    /\ btUpdate = [old |-> <<>>, new |-> <<>>, started |-> FALSE]
    /\ btBatches = <<>>
    /\ btLog = <<>>
    /\ btFailures = 0
    /\ maxValues = 2
    /\ idxOpen = 0
    /\ fdOpen = FALSE
    /\ hPc = [p \in Procs |-> "idle"]
    /\ hOps = 0
    /\ ftWordCache = {}
    /\ upIndex = [type |-> "normal", includeKeys |-> <<>>]
    /\ upStored = [null |-> TRUE, key |-> Null, inc |-> Null]
    /\ upLast = [called |-> FALSE]
    /\ exSliding = FALSE
    /\ exClock = 0
    /\ exEntry = [exists |-> FALSE]
    /\ exTimers = {}
    /\ exPc = [p \in Procs |-> "idle"]
    /\ exNext = 1
    /\ exRemoved = [removed |-> FALSE]
    /\ maxEntriesPerNode = 2
    /\ uniqueKeys = FALSE
    /\ treeLeaves = <<[entries |-> <<>>, low |-> 0, id |-> 1, prevLeaf |-> 0, nextLeaf |-> 0]>>
    /\ leafThrown = FALSE
    /\ crLength = 0
    /\ crMaxEntries = NotGiven
    /\ crFillFactor = 100
    /\ crLeaves = <<>>
    /\ crNodes = <<>>
    /\ crPc = "start"
    /\ qsInput = <<>>
    /\ qsArr = <<>>
    /\ qsStack = <<>>
    /\ qsShell = [start |-> 0, end |-> 0, inc |-> 0, i |-> 0]
    /\ qsPc = "start"
    /\ qsPart = [start |-> 0, end |-> 0, depth |-> 0, i |-> 0, j |-> 0, pivot |-> 0]
    /\ qsI = 0
    /\ mnStore = [r \in Recs |-> Null]
    /\ mnMatched = {}
    /\ mnPending = {}
    /\ mnEvent = [name |-> "none"]
    /\ mnCalls = 0
    /\ gnParent = NoRecord
    /\ gnLast = [op |-> "none"]
    /\ buUnique = FALSE
    /\ buList = [k \in BuilderKeys |-> <<>>]
    /\ buThrown = FALSE

\* build() makes the record pointer of the record and writes it to the build
\* file, from where it reaches the tree
WritePointer ==
    /\ rpStored = <<>>
    /\ rpStored' = BufferFrom(_createRecordPointer(rpInput.wildcards, rpInput.key))
    /\ UNCHANGED <<rpInput, rpParsed, notPointer>>

\* a query finds the value and parses its record pointer
ParsePointer ==
    /\ rpStored # <<>>
    /\ ~rpParsed.done
    /\ rpParsed' = _parseRecordPointer(rpInput.path, rpStored)
    /\ UNCHANGED <<rpInput, rpStored, notPointer>>

NextPointer == WritePointer \/ ParsePointer

SpecPointer == InitPointer /\ [][NextPointer]_vars

C14_InvalidOperatorRejected ==
    [][\A p \in Procs :
          (proc[p].pc = "idle" /\ proc'[p].pc # "idle"
           /\ proc'[p].op \notin validOperators(proc'[p].type))
          => (proc'[p].pc = "q_thrown"
              /\ UNCHANGED <<lockState, lockQueue, cache, tree>>)]_vars
\* a query with an unsupported operator has thrown while another caller held
\* the lock and the cache held an entry
C14_Witness ==
    \E p \in Procs :
        /\ proc[p].pc = "q_thrown"
        /\ lockState.isLocked
        /\ \E ck \in CacheKeys : cache[ck].cached


(***************************************************************************)
(* SpecWrite: CustomStorage._writeNode on an existing object node whose    *)
(* properties are stored inline or in dedicated child records              *)
(***************************************************************************)
\* number of _writeNode calls in a behaviour
MaxWrites == 2

notWrite == <<lockVars, lkVars, ixVars, buildVars, arrayVars, ftVars, takeVars, queryVars, pointerVars, cacheVars, batchVars, capVars, handleVars, ftWordVars, updateVars, expiryVars, leafVars, createVars, sortVars, sortLocalVars, monitorVars, getVars, builderVars>>

\* values small enough to be stored inline, and long strings that get a
\* record of their own
SmallVals == {"s1", "s2"}
BigVals == {"B1", "B2"}
valueFitsInline(v) == v \in SmallVals
\* the objects written: per key a value, null, or no such property
WriteValues == [WriteKeys -> SmallVals \cup BigVals \cup {Null, NoProp}]
ObjectKeys(value) == {k \in WriteKeys : value[k] # NoProp}

\* mainNode.value: the current object, every key of the new value deleted
\* from it, and the new values that fit inline set
MainNodeValue(current, value) ==
    [k \in WriteKeys |->
        IF value[k] = NoProp THEN current[k]
        ELSE IF value[k] # Null /\ valueFitsInline(value[k]) THEN value[k]
        ELSE NoProp]
\* childNodeValues: the new values to store in their own record
childNodeValues(value) ==
    {k \in ObjectKeys(value) : value[k] # Null /\ ~valueFitsInline(value[k])}
\* children.current and children.new
ChildrenCurrent(current, records) == ObjectKeys(current) \cup ObjectKeys(records)
ChildrenNew(current, records, value, merge) ==
    (IF merge THEN ChildrenCurrent(current, records) ELSE {}) \cup ObjectKeys(value)
\* changes.delete
ChangesDelete(current, records, value, merge) ==
    IF merge THEN {k \in ObjectKeys(value) : value[k] = Null}
    ELSE ChildrenCurrent(current, records) \ ChildrenNew(current, records, value, merge)
\* movingNodes: dedicated records whose key is in mainNode.value now
movingNodes(current, records, value) ==
    {k \in ObjectKeys(records) : MainNodeValue(current, value)[k] # NoProp}
\* the dedicated records after the writes and deletes of _writeNode
RecordsAfter(current, records, value, merge) ==
    [k \in WriteKeys |->
        IF k \in childNodeValues(value) THEN value[k]
        ELSE IF k \in ChangesDelete(current, records, value, merge)
                      \cup movingNodes(current, records, value)
             THEN NoProp
        ELSE records[k]]

InitWrite ==
    /\ lockState = InitLockState
    /\ lockQueue = <<>>
    /\ lkHolders = {}
    /\ lkGranted = {}
    /\ lkNext = 1
    /\ store = InitStore
    /\ tree = EmptyTree
    /\ cache = EmptyCache
    /\ proc = [p \in Procs |-> IdleProc]
    /\ updates = 0
    /\ failures = 0
    /\ bKey = [r \in SeqRange(BuildRecs) |-> NoKey]
    /\ buildFile = NoFile
    /\ runFiles = [n \in RunNrs |-> NoFile]
    /\ mergeFile = NoFile
    /\ indexFile = EmptyIndexFile
    /\ bmem = IdleBuild
    /\ crashes = 0
    /\ arrays = [r \in Recs |-> <<>>]
    /\ arrayUnique = FALSE
    /\ arrayResult = [asked |-> FALSE]
    /\ arrayUpdates = 0
    /\ ftTexts = [r \in SeqRange(FtRecs) |-> <<>>]
    /\ ftTree = EmptyFtTree
    /\ ftCache = EmptyFtCache
    /\ ftParsed = {}
    /\ ftResult = [asked |-> FALSE]
    /\ ftUpdates = 0
    /\ ftQueries = 0
    /\ takeLeaves = <<<<>>>>
    /\ takeResult = [asked |-> FALSE]
    /\ qVals = [n \in 1..MaxNodes |-> [a |-> 1, b |-> 1]]
    /\ qIndex = FALSE
    /\ qResult = [asked |-> FALSE]
    /\ rpInput = [path |-> <<65>>, wildcards |-> <<>>, key |-> <<65>>]
    /\ rpStored = <<>>
    /\ rpParsed = [done |-> FALSE]
    /\ wnInline = [k \in WriteKeys |-> NoProp]
    /\ wnRecords = [k \in WriteKeys |-> NoProp]
    /\ wnLast = [written |-> FALSE]
    /\ wnWrites = 0
    /\ cServed = [asked |-> FALSE]
    /\ btUpdate = [old |-> <<>>, new |-> <<>>, started |-> FALSE]
    /\ btBatches = <<>>
    /\ btLog = <<>>
    /\ btFailures = 0
    /\ maxValues = 2
    /\ idxOpen = 0
    /\ fdOpen = FALSE
    /\ hPc = [p \in Procs |-> "idle"]
    /\ hOps = 0
    /\ ftWordCache = {}
    /\ upIndex = [type |-> "normal", includeKeys |-> <<>>]
    /\ upStored = [null |-> TRUE, key |-> Null, inc |-> Null]
    /\ upLast = [called |-> FALSE]
    /\ exSliding = FALSE
    /\ exClock = 0
    /\ exEntry = [exists |-> FALSE]
    /\ exTimers = {}
    /\ exPc = [p \in Procs |-> "idle"]
    /\ exNext = 1
    /\ exRemoved = [removed |-> FALSE]
    /\ maxEntriesPerNode = 2
    /\ uniqueKeys = FALSE
    /\ treeLeaves = <<[entries |-> <<>>, low |-> 0, id |-> 1, prevLeaf |-> 0, nextLeaf |-> 0]>>
    /\ leafThrown = FALSE
    /\ crLength = 0
    /\ crMaxEntries = NotGiven
    /\ crFillFactor = 100
    /\ crLeaves = <<>>
    /\ crNodes = <<>>
    /\ crPc = "start"
    /\ qsInput = <<>>
    /\ qsArr = <<>>
    /\ qsStack = <<>>
    /\ qsShell = [start |-> 0, end |-> 0, inc |-> 0, i |-> 0]
    /\ qsPc = "start"
    /\ qsPart = [start |-> 0, end |-> 0, depth |-> 0, i |-> 0, j |-> 0, pivot |-> 0]
    /\ qsI = 0
    /\ mnStore = [r \in Recs |-> Null]
    /\ mnMatched = {}
    /\ mnPending = {}
    /\ mnEvent = [name |-> "none"]
    /\ mnCalls = 0
    /\ gnParent = NoRecord
    /\ gnLast = [op |-> "none"]
    /\ buUnique = FALSE
    /\ buList = [k \in BuilderKeys |-> <<>>]
    /\ buThrown = FALSE

\* _writeNode(path, value, { merge }) on the existing object node
WriteNode(value, merge) ==
    /\ wnWrites < MaxWrites
    /\ wnWrites' = wnWrites + 1
    /\ wnInline' = MainNodeValue(wnInline, value)
    /\ wnRecords' = RecordsAfter(wnInline, wnRecords, value, merge)
    /\ wnLast' = [written |-> TRUE, value |-> value, merge |-> merge,
                  inlineBefore |-> wnInline, recordsBefore |-> wnRecords]
    /\ UNCHANGED notWrite

NextWrite == \E value \in WriteValues, merge \in BOOLEAN : WriteNode(value, merge)

SpecWrite == InitWrite /\ [][NextWrite]_vars

\* the property k of the stored node: its inline value or its record
StoredProp(k) == IF wnInline[k] # NoProp THEN wnInline[k] ELSE wnRecords[k]

\* C15: writing a value to an existing object node without merge overwrites
\* it: afterwards the stored node has exactly the properties of the new
\* value, and every property of the previous value that is absent from the
\* new value is gone, whether it was stored inline or in a child record
C15_OverwriteReplaces ==
    (wnLast.written /\ ~wnLast.merge) =>
        \A k \in WriteKeys :
            StoredProp(k) = IF wnLast.value[k] = Null THEN NoProp ELSE wnLast.value[k]


\* the requests a step has granted, and the readers at the head of a queue
\* up to its first writer
NewlyGranted == lkGranted' \ lkGranted
ReadersAtHead(q) == {q[j] : j \in {i \in 1..Len(q) : \A k \in 1..i : ~q[k].forWriting}}

\* C16: when a lock release finds a writer at the head of the pending queue
\* only that writer is granted the lock; when it finds a reader at the head,
\* all consecutive readers at the head are granted the lock together and no
\* request behind the first queued writer is granted
C16_ReleaseWakesHead ==
    [][((\E l \in lkHolders : l \notin lkHolders') /\ lockQueue # <<>>)
       => IF Head(lockQueue).forWriting
          THEN NewlyGranted = {Head(lockQueue)}
          ELSE NewlyGranted = ReadersAtHead(lockQueue)]_vars
\* a release has granted two queued readers together and left the writer
\* behind them in the queue
C16_Witness ==
    /\ lockQueue # <<>>
    /\ Head(lockQueue).forWriting
    /\ \E a, b \in lkHolders :
          a # b /\ a.queued /\ b.queued /\ ~a.forWriting /\ ~b.forWriting

\* C17: readers do not block readers: a read-lock request made while the
\* lock is held only by readers and no writer is waiting is granted
\* immediately, without waiting for any release
C17_ReadersShare ==
    [][(/\ lkNext' = lkNext + 1
        /\ \A h \in lkHolders : ~h.forWriting
        /\ \A i \in 1..Len(lockQueue) : ~lockQueue[i].forWriting)
       => \A i \in 1..Len(lockQueue') :
              ~(lockQueue'[i].id = lkNext /\ ~lockQueue'[i].forWriting)]_vars


(***************************************************************************)
(* SpecCache: one client that queries, updates records and builds the      *)
(* index, one operation after the other; each cache entry carries, as      *)
(* history, whether a write operation has completed since it was created   *)
(***************************************************************************)
notCache == <<lockVars, lkVars, proc, updates, failures, buildVars, arrayVars, ftVars, takeVars, queryVars, pointerVars, writeVars, batchVars, capVars, handleVars, ftWordVars, updateVars, expiryVars, leafVars, createVars, sortVars, sortLocalVars, monitorVars, getVars, builderVars>>

\* history: a write operation has completed, the entries the cache holds
\* were created before it
MarkOld(c) ==
    [ck \in DOMAIN c |-> IF c[ck].cached THEN [c[ck] EXCEPT !.old = TRUE] ELSE c[ck]]

\* the tree build() writes: one value per record that has a key value
BuiltTree(s) == [kr \in TreeKeys |-> IF s[kr[2]] = kr[1] THEN 1 ELSE 0]

\* query(op, val): the cached results if there are any, else a search under
\* the read lock, whose result is cached
CacheQuery(op, val) ==
    /\ ~lockState.isLocked
    /\ IF ProbeCache(cache, op, val).cached
       THEN /\ cServed' = [asked |-> TRUE, fromCache |-> TRUE,
                           old |-> cache[<<op, val>>].old,
                           entries |-> cache[<<op, val>>].entries]
            /\ cache' = cache
       ELSE /\ cServed' = [asked |-> TRUE, fromCache |-> FALSE, old |-> FALSE,
                           entries |-> Search(tree, op, val)]
            /\ cache' = [cache EXCEPT ![<<op, val>>] =
                           [cached |-> TRUE, entries |-> Search(tree, op, val),
                            outdated |-> FALSE, old |-> FALSE]]
    /\ UNCHANGED <<store, tree, notCache>>

\* handleRecordUpdate for a changed key value: this._cache.clear(), then the
\* tree operations under the write lock
CacheRecordUpdate(r, newValue) ==
    /\ ~lockState.isLocked
    /\ store[r] # newValue
    /\ store' = [store EXCEPT ![r] = newValue]
    /\ tree' = ApplyOps(tree, UpdateOps(store[r], newValue, r))
    /\ cache' = MarkOld(EmptyCache)
    /\ UNCHANGED <<cServed, notCache>>

\* build() from its write lock to the release: the index file is written from
\* the records; this._cache is not touched
CacheBuild ==
    /\ ~lockState.isLocked
    /\ tree' = BuiltTree(store)
    /\ cache' = MarkOld(cache)
    /\ UNCHANGED <<store, cServed, notCache>>

NextCache ==
    \/ \E op \in QueryOps, val \in Vals : CacheQuery(op, val)
    \/ \E r \in Recs, v \in Vals \cup {Null} : CacheRecordUpdate(r, v)
    \/ CacheBuild
    \/ \E ck \in CacheKeys : CacheTimeout(ck)

SpecCache == Init /\ [][NextCache]_vars

\* C18: every write operation on an index (record update, build, rebuild)
\* fully invalidates the query cache: after the operation completes, no cache
\* entry created before it is served by a query
C18_WritesInvalidate == (cServed.asked /\ cServed.fromCache) => ~cServed.old


(***************************************************************************)
(* SpecBatch: one ArrayIndex.handleRecordUpdate: a _processTreeOperations  *)
(* call per removed and per added element, each with its own write lock    *)
(* request, transaction, and rebuild and retry when the transaction fails  *)
(***************************************************************************)
\* number of failed transactions in a behaviour
MaxBatchFailures == 1

notBatch == <<lkVars, ixVars, buildVars, arrayVars, ftVars, takeVars, queryVars, pointerVars, writeVars, cacheVars, capVars, handleVars, ftWordVars, updateVars, expiryVars, leafVars, createVars, sortVars, sortLocalVars, monitorVars, getVars, builderVars>>

\* the calls in order: the first gets the lock at once, the others queue
BatchesOf(ops) ==
    [i \in 1..Len(ops) |->
        [pc |-> IF i = 1 THEN "locked" ELSE "wait", ops |-> <<ops[i]>>]]
BatchQueue(ops) == [i \in 1..(Len(ops) - 1) |-> LockObj(i + 1, TRUE, TRUE)]

\* lock.release() by batch b: the requests taken from the queue proceed
Woken(q) == {l.id : l \in SeqRange(Pending(q))}
AfterRelease(batches, b, pc, ops, q) ==
    [i \in 1..Len(batches) |->
        IF i = b THEN [pc |-> pc, ops |-> ops]
        ELSE IF i \in Woken(q) THEN [batches[i] EXCEPT !.pc = "locked"]
        ELSE batches[i]]

InitBatch ==
    /\ lockState = InitLockState
    /\ lockQueue = <<>>
    /\ lkHolders = {}
    /\ lkGranted = {}
    /\ lkNext = 1
    /\ store = InitStore
    /\ tree = EmptyTree
    /\ cache = EmptyCache
    /\ proc = [p \in Procs |-> IdleProc]
    /\ updates = 0
    /\ failures = 0
    /\ bKey = [r \in SeqRange(BuildRecs) |-> NoKey]
    /\ buildFile = NoFile
    /\ runFiles = [n \in RunNrs |-> NoFile]
    /\ mergeFile = NoFile
    /\ indexFile = EmptyIndexFile
    /\ bmem = IdleBuild
    /\ crashes = 0
    /\ arrays = [r \in Recs |-> <<>>]
    /\ arrayUnique = FALSE
    /\ arrayResult = [asked |-> FALSE]
    /\ arrayUpdates = 0
    /\ ftTexts = [r \in SeqRange(FtRecs) |-> <<>>]
    /\ ftTree = EmptyFtTree
    /\ ftCache = EmptyFtCache
    /\ ftParsed = {}
    /\ ftResult = [asked |-> FALSE]
    /\ ftUpdates = 0
    /\ ftQueries = 0
    /\ takeLeaves = <<<<>>>>
    /\ takeResult = [asked |-> FALSE]
    /\ qVals = [n \in 1..MaxNodes |-> [a |-> 1, b |-> 1]]
    /\ qIndex = FALSE
    /\ qResult = [asked |-> FALSE]
    /\ rpInput = [path |-> <<65>>, wildcards |-> <<>>, key |-> <<65>>]
    /\ rpStored = <<>>
    /\ rpParsed = [done |-> FALSE]
    /\ wnInline = [k \in WriteKeys |-> NoProp]
    /\ wnRecords = [k \in WriteKeys |-> NoProp]
    /\ wnLast = [written |-> FALSE]
    /\ wnWrites = 0
    /\ cServed = [asked |-> FALSE]
    /\ btUpdate \in [old : Arrays, new : Arrays, started : {FALSE}]
    /\ btBatches = <<>>
    /\ btLog = <<>>
    /\ btFailures = 0
    /\ maxValues = 2
    /\ idxOpen = 0
    /\ fdOpen = FALSE
    /\ hPc = [p \in Procs |-> "idle"]
    /\ hOps = 0
    /\ ftWordCache = {}
    /\ upIndex = [type |-> "normal", includeKeys |-> <<>>]
    /\ upStored = [null |-> TRUE, key |-> Null, inc |-> Null]
    /\ upLast = [called |-> FALSE]
    /\ exSliding = FALSE
    /\ exClock = 0
    /\ exEntry = [exists |-> FALSE]
    /\ exTimers = {}
    /\ exPc = [p \in Procs |-> "idle"]
    /\ exNext = 1
    /\ exRemoved = [removed |-> FALSE]
    /\ maxEntriesPerNode = 2
    /\ uniqueKeys = FALSE
    /\ treeLeaves = <<[entries |-> <<>>, low |-> 0, id |-> 1, prevLeaf |-> 0, nextLeaf |-> 0]>>
    /\ leafThrown = FALSE
    /\ crLength = 0
    /\ crMaxEntries = NotGiven
    /\ crFillFactor = 100
    /\ crLeaves = <<>>
    /\ crNodes = <<>>
    /\ crPc = "start"
    /\ qsInput = <<>>
    /\ qsArr = <<>>
    /\ qsStack = <<>>
    /\ qsShell = [start |-> 0, end |-> 0, inc |-> 0, i |-> 0]
    /\ qsPc = "start"
    /\ qsPart = [start |-> 0, end |-> 0, depth |-> 0, i |-> 0, j |-> 0, pivot |-> 0]
    /\ qsI = 0
    /\ mnStore = [r \in Recs |-> Null]
    /\ mnMatched = {}
    /\ mnPending = {}
    /\ mnEvent = [name |-> "none"]
    /\ mnCalls = 0
    /\ gnParent = NoRecord
    /\ gnLast = [op |-> "none"]
    /\ buUnique = FALSE
    /\ buList = [k \in BuilderKeys |-> <<>>]
    /\ buThrown = FALSE

\* ArrayIndex.handleRecordUpdate: super.handleRecordUpdate for every removed
\* element, then for every added one; each call runs up to its _lock(true)
BatchHandleRecordUpdate ==
    /\ ~btUpdate.started
    /\ ~lockState.isLocked
    /\ ArrayOps(btUpdate.old, btUpdate.new, "r1") # <<>>
    /\ btUpdate' = [btUpdate EXCEPT !.started = TRUE]
    /\ btBatches' = BatchesOf(ArrayOps(btUpdate.old, btUpdate.new, "r1"))
    /\ lockState' = AcquiredState(TRUE)
    /\ lockQueue' = BatchQueue(ArrayOps(btUpdate.old, btUpdate.new, "r1"))
    /\ UNCHANGED <<btLog, btFailures, notBatch>>

\* tree.transaction(operations) succeeds: release; no operation is left over
BatchTransactionOk(b) ==
    /\ btBatches[b].pc = "locked"
    /\ btLog' = btLog \o btBatches[b].ops
    /\ btBatches' = AfterRelease(btBatches, b, "done", <<>>, lockQueue)
    /\ lockState' = ReleasedState(lockState, lockQueue)
    /\ lockQueue' = Remaining(lockQueue)
    /\ UNCHANGED <<btUpdate, btFailures, notBatch>>

\* tree.transaction(operations) fails before its first operation: _rebuild
BatchTransactionFail(b) ==
    /\ btBatches[b].pc = "locked"
    /\ btFailures < MaxBatchFailures
    /\ btFailures' = btFailures + 1
    /\ btBatches' = [btBatches EXCEPT ![b].pc = "rebuild"]
    /\ UNCHANGED <<btUpdate, btLog, lockState, lockQueue, notBatch>>

\* _rebuild has resolved: release, then _processTreeOperations again for the
\* left-over operations, with a new _lock(true)
BatchRebuildDone(b) ==
    /\ btBatches[b].pc = "rebuild"
    /\ LeftOver(btBatches[b].ops)
    /\ IF GrantedAtOnce(ReleasedState(lockState, lockQueue), TRUE)
       THEN /\ btBatches' = AfterRelease(btBatches, b, "locked", btBatches[b].ops, lockQueue)
            /\ lockState' = AcquiredState(TRUE)
            /\ lockQueue' = Remaining(lockQueue)
       ELSE /\ btBatches' = AfterRelease(btBatches, b, "wait", btBatches[b].ops, lockQueue)
            /\ lockState' = ReleasedState(lockState, lockQueue)
            /\ lockQueue' = Append(Remaining(lockQueue), LockObj(b, TRUE, TRUE))
    /\ UNCHANGED <<btUpdate, btLog, btFailures, notBatch>>

NextBatch ==
    \/ BatchHandleRecordUpdate
    \/ \E b \in 1..Len(btBatches) : BatchTransactionOk(b)
    \/ \E b \in 1..Len(btBatches) : BatchTransactionFail(b)
    \/ \E b \in 1..Len(btBatches) : BatchRebuildDone(b)

SpecBatch == InitBatch /\ [][NextBatch]_vars

\* C19: within one logical update, including the several tree batches issued
\* by one array-index or fulltext-index update, every remove operation is
\* applied to the tree before any add operation of the same update, also
\* when one of the batches fails and is retried after a rebuild
C19_RemovesBeforeAdds ==
    \A i, j \in 1..Len(btLog) :
        (i < j /\ btLog[i].type = "add") => btLog[j].type # "remove"


(***************************************************************************)
(* Claims about the merge of the batch files (SpecBuild)                   *)
(***************************************************************************)
\* the batch files of the running build(), and the values a file has for a key
RunsOf(n) == [b \in 1..n |-> runFiles[b].entries]
ValuesIn(entries, key) == Flatten(SelectSeq(entries, LAMBDA e : e.key = key))
RECURSIVE ValuesOfRuns(_, _, _)
ValuesOfRuns(runs, b, key) ==
    IF b > Len(runs) THEN <<>>
    ELSE ValuesIn(runs[b], key) \o ValuesOfRuns(runs, b + 1, key)
KeysOf(entries) == {entries[i].key : i \in 1..Len(entries)}
Ascending(entries) ==
    \A i, j \in 1..Len(entries) : i < j => entries[i].key < entries[j].key
SameValues(s, t) ==
    /\ Len(s) = Len(t)
    /\ \A v \in SeqRange(s) \cup SeqRange(t) :
        Cardinality({i \in 1..Len(s) : s[i] = v}) = Cardinality({i \in 1..Len(t) : t[i] = v})
MergeThrown == bmem.pc = "caught" /\ bmem.error = "type"
MergeEnded == bmem.pc = "C_rm"
RunsAscending == \A b \in 1..bmem.batchNr : Ascending(runFiles[b].entries)

\* C20: the merge of batch files that are each in ascending key order comes
\* to its end without an error, and has then written each distinct key of the
\* batch files exactly once, in ascending key order, with the values the
\* batch files have for that key
C20_MergeComplete ==
    RunsAscending =>
        /\ ~MergeThrown
        /\ MergeEnded =>
            /\ Ascending(mergeFile.entries)
            /\ KeysOf(mergeFile.entries)
                 = UNION {KeysOf(runFiles[b].entries) : b \in 1..bmem.batchNr}
            /\ \A k \in 1..MaxKey :
                 SameValues(ValuesIn(mergeFile.entries, k),
                            ValuesOfRuns(RunsOf(bmem.batchNr), 1, k))


(***************************************************************************)
(* Claims about the batch files of build() (SpecBuild)                     *)
(***************************************************************************)
\* the number of times record r is in a value list of the batch files, and
\* in the build file
TimesIn(values, r) == Cardinality({j \in 1..Len(values) : values[j] = r})
RECURSIVE TimesInEntries(_, _, _)
TimesInEntries(entries, key, r) ==
    IF entries = <<>> THEN 0
    ELSE (IF Head(entries).key = key THEN TimesIn(Head(entries).values, r) ELSE 0)
            + TimesInEntries(Tail(entries), key, r)
RECURSIVE TimesInRuns(_, _, _)
TimesInRuns(b, key, r) ==
    IF b = 0 THEN 0
    ELSE TimesInEntries(runFiles[b].entries, key, r) + TimesInRuns(b - 1, key, r)
TimesInBuildFile(key, r) ==
    Cardinality({i \in 1..Len(buildFile.entries) :
                    buildFile.entries[i].key = key /\ buildFile.entries[i].rp = r})
BatchesWritten == bmem.pc = "C_load"
\* nextEntry is about to read an entry whose key the map of the batch holds
NextRead == buildFile.entries[NextUnprocessed(buildFile.entries, bmem.readPos)]
ReadsHeldKey ==
    /\ bmem.pc = "B"
    /\ NextUnprocessed(buildFile.entries, bmem.readPos) # 0
    /\ \E j \in 1..Len(bmem.map) : bmem.map[j].key = NextRead.key
MergedIntoBatch ==
    /\ bmem'.pc = "B"
    /\ \E j \in 1..Len(bmem.map) :
        /\ bmem.map[j].key = NextRead.key
        /\ bmem'.map[j].key = NextRead.key
        /\ TimesIn(bmem'.map[j].values, NextRead.rp)
              = TimesIn(bmem.map[j].values, NextRead.rp) + 1

\* C21: every batch file has strictly ascending keys; once the batches are
\* written every record of the build file is in the value list of exactly
\* one batch file entry, under its key; and an entry whose key the map of
\* the batch holds is put into that batch whatever the number of processed
\* values.
C21_BatchesPartition ==
    /\ [](\A b \in RunNrs : Ascending(runFiles[b].entries))
    /\ [](BatchesWritten =>
            \A r \in SeqRange(BuildRecs), k \in 1..MaxKey :
                TimesInRuns(bmem.batchNr, k, r) = TimesInBuildFile(k, r))
    /\ [][(ReadsHeldKey /\ bmem'.pc \in {"B", "B_write"}) => MergedIntoBatch]_vars
(***************************************************************************)
(* Claims about the exit paths of the operations (Spec)                    *)
(***************************************************************************)
\* the positions at which an operation holds a granted lock it will release
HoldsLock(p) == proc[p].pc \in {"q_locked", "q_read", "c_locked", "u_locked", "u_rebuild"}

\* C22: every granted lock is released on every exit path of query, count and
\* _processTreeOperations, the failing ones included: whenever the lock is
\* marked as held, an operation that has not ended yet holds it.
C22_ReleasedOnEveryPath == lockState.isLocked => \E p \in Procs : HoldsLock(p)

(***************************************************************************)
(* SpecHandle: the tree handle of _getTree, shared by the operations that  *)
(* run on the index at a time, and the descriptor of the index file        *)
(***************************************************************************)
\* number of operations started in a behaviour
MaxHandleOps == 4

notHandle == <<lockVars, lkVars, ixVars, buildVars, arrayVars, ftVars, takeVars, queryVars, pointerVars, writeVars, cacheVars, batchVars, capVars, ftWordVars, updateVars, expiryVars, leafVars, createVars, sortVars, sortLocalVars, monitorVars, getVars, builderVars>>

\* _getTree: this._idx.open++ on the handle that is there, else open the file
\* and make a handle with open = 1
GetTree(p) ==
    /\ hPc[p] = "idle"
    /\ hOps < MaxHandleOps
    /\ hOps' = hOps + 1
    /\ idxOpen' = idxOpen + 1
    /\ fdOpen' = TRUE
    /\ hPc' = [hPc EXCEPT ![p] = "holding"]
    /\ UNCHANGED notHandle

\* idx.close(): idx.open--; at 0 this._idx = null and pfs.close(fd)
\* this is where query, count, take and the update end without an error
CloseTree(p) ==
    /\ hPc[p] = "holding"
    /\ idxOpen' = idxOpen - 1
    /\ fdOpen' = (idxOpen - 1 # 0)
    /\ hPc' = [hPc EXCEPT ![p] = "closed"]
    /\ UNCHANGED <<hOps, notHandle>>

\* tree.search, the getLeaf chain of take or tree.rebuild rejects: the handler
\* that calls idx.close() is skipped, the operation ends with the rejection
OperationFail(p) ==
    /\ hPc[p] = "holding"
    /\ hPc' = [hPc EXCEPT ![p] = "failed"]
    /\ UNCHANGED <<idxOpen, fdOpen, hOps, notHandle>>

\* the caller has the result or the error; it may start another operation
OperationReturn(p) ==
    /\ hPc[p] \in {"closed", "failed"}
    /\ hPc' = [hPc EXCEPT ![p] = "idle"]
    /\ UNCHANGED <<idxOpen, fdOpen, hOps, notHandle>>

NextHandle ==
    \/ \E p \in Procs : GetTree(p)
    \/ \E p \in Procs : CloseTree(p)
    \/ \E p \in Procs : OperationFail(p)
    \/ \E p \in Procs : OperationReturn(p)

SpecHandle == Init /\ [][NextHandle]_vars

\* C23: once every operation has ended, with a result or with an error, the
\* open count of the handle is zero and the descriptor is closed; and the
\* descriptor is open while an operation holds the handle.
C23_HandleClosed ==
    /\ (\A p \in Procs : hPc[p] # "holding") => (idxOpen = 0 /\ ~fdOpen)
    /\ (\E p \in Procs : hPc[p] = "holding") => fdOpen

(***************************************************************************)
(* Claims about the cache of the fulltext index (SpecFT)                   *)
(***************************************************************************)
\* the result of a query on the tree with no cache entry and no value read
\* before: its error flag and its paths
NoFtState == [cache |-> EmptyFtCache, parsed |-> {}]
UncachedPart(part) == QueryPart(ftTree, NoFtState, part)
UncachedPaths(parts) ==
    IF Len(parts) = 1 THEN Paths(UncachedPart(parts[1]).results)
    ELSE Paths(PushNew(UncachedPart(parts[1]).results, UncachedPart(parts[2]).results))
UncachedError(parts) == \E i \in 1..Len(parts) : UncachedPart(parts[i]).error

\* C24: with no update in between, a fulltext query gives the result it gives
\* on the same index without any cache, whatever queries ran before it.
C24_CacheTransparent ==
    ftResult.asked =>
        /\ ftResult.error = UncachedError(ftResult.query)
        /\ ftResult.paths = UncachedPaths(ftResult.query)

\* C25: after any fulltext query the cache holds results under the fulltext
\* operator only: no result of a tree search for a single word is in it under
\* '==' or 'like'.
C25_OnlyReducedCached == ftResult.asked => ftWordCache = {}

(***************************************************************************)
(* SpecUpdate: handleRecordUpdate of an index of each type on a record     *)
(* that is created, changed and deleted                                    *)
(***************************************************************************)
notUpdate == <<lockVars, lkVars, ixVars, buildVars, arrayVars, ftVars, takeVars, queryVars, pointerVars, writeVars, cacheVars, batchVars, capVars, handleVars, ftWordVars, expiryVars, leafVars, createVars, sortVars, sortLocalVars, monitorVars, getVars, builderVars>>

\* an index without and with one included key
IncludeKeyChoices == {<<>>, <<"inc">>}
\* the values of the indexed key by index type: a scalar or none, an array,
\* a text as its list of words
NoKeyValue(type) == IF type = "normal" THEN Null ELSE <<>>
KeyValues(type) ==
    IF type = "normal" THEN {Null, "x", "y"}
    ELSE IF type = "array" THEN {<<>>, <<"x">>, <<"y">>, <<"x", "y">>}
    ELSE {<<>>, <<"a">>, <<"b">>, <<"a", "b">>, <<"b", "a">>}
\* a record value: null, or an object with the indexed key and the included key
NullRecord(type) == [null |-> TRUE, key |-> NoKeyValue(type), inc |-> Null]
RecordValues(type) ==
    {NullRecord(type)} \cup [null : {FALSE}, key : KeyValues(type), inc : {"i", "j"}]
\* an object that has the indexed key only, as the subclasses pass to super
KeyOnly(key) == [null |-> FALSE, key |-> key, inc |-> Null]

\* what a handleRecordUpdate call did: thrown, the tree operations it passed
\* to _processTreeOperations, its lock requests, the cache cleared
NoEffect == [thrown |-> FALSE, ops |-> <<>>, locks |-> 0, cleared |-> FALSE]
Thrown == [NoEffect EXCEPT !.thrown = TRUE]
\* calls one after the other in a forEach: a throw ends the loop
AndThen(a, b) ==
    IF a.thrown THEN a
    ELSE [thrown |-> b.thrown, ops |-> a.ops \o b.ops, locks |-> a.locks + b.locks,
          cleared |-> a.cleared \/ b.cleared]

\* Utils.getChildValues(childKey, oldValue, newValue)
getChildValues(childKey, oldValue, newValue) ==
    [oldValue |-> IF oldValue.null THEN Null ELSE oldValue[childKey],
     newValue |-> IF newValue.null THEN Null ELSE newValue[childKey]]

\* an update that takes every call for a change
UnchangedNever(keyValues, includedValues) == FALSE
\* !keyValueChanged && !includedValuesChanged
Unchanged(keyValues, includedValues) ==
    /\ keyValues.oldValue = keyValues.newValue
    /\ \A i \in 1..Len(includedValues) :
           includedValues[i].oldValue = includedValues[i].newValue

\* DataIndex.handleRecordUpdate(path, oldValue, newValue)
DataHandleRecordUpdate(includeKeys, oldValue, newValue, rp) ==
    LET kv == getChildValues("key", oldValue, newValue)
        keyValues == [oldValue |-> toLocaleLowerCase(kv.oldValue),
                      newValue |-> toLocaleLowerCase(kv.newValue)]
        includedValues ==
            [i \in 1..Len(includeKeys) |-> getChildValues(includeKeys[i], oldValue, newValue)]
    IN  IF Unchanged(keyValues, includedValues) THEN NoEffect
        ELSE IF includeKeys # <<>> /\ newValue.null THEN Thrown
        ELSE [thrown |-> FALSE,
              ops |-> UpdateOps(keyValues.oldValue, keyValues.newValue, rp),
              locks |-> 1, cleared |-> TRUE]

\* ArrayIndex.handleRecordUpdate: oldValue[this.key] and newValue[this.key]
\* are read first, then super.handleRecordUpdate per removed and added element
RECURSIVE ArrayRemoveCalls(_, _, _, _, _)
ArrayRemoveCalls(includeKeys, es, oldValue, newValue, rp) ==
    IF es = <<>> THEN NoEffect
    ELSE AndThen(DataHandleRecordUpdate(includeKeys, [oldValue EXCEPT !.key = Head(es)],
                                        [newValue EXCEPT !.key = Null], rp),
                 ArrayRemoveCalls(includeKeys, Tail(es), oldValue, newValue, rp))
RECURSIVE ArrayAddCalls(_, _, _, _, _)
ArrayAddCalls(includeKeys, es, oldValue, newValue, rp) ==
    IF es = <<>> THEN NoEffect
    ELSE AndThen(DataHandleRecordUpdate(includeKeys, [oldValue EXCEPT !.key = Null],
                                        [newValue EXCEPT !.key = Head(es)], rp),
                 ArrayAddCalls(includeKeys, Tail(es), oldValue, newValue, rp))
ArrayIndexHandleRecordUpdate(includeKeys, oldValue, newValue, rp) ==
    IF oldValue.null \/ newValue.null THEN Thrown
    ELSE AndThen(ArrayRemoveCalls(includeKeys, removed(oldValue.key, newValue.key),
                                  oldValue, newValue, rp),
                 ArrayAddCalls(includeKeys, added(oldValue.key, newValue.key),
                               oldValue, newValue, rp))

\* FullTextIndex.handleRecordUpdate: a null value has no words; super is
\* called with { key: word } and { key: null } per removed word, and with
\* { key: null } and the new value with the word as key per added word
RECURSIVE FtRemoveCalls(_, _, _)
FtRemoveCalls(includeKeys, ws, rp) ==
    IF ws = <<>> THEN NoEffect
    ELSE AndThen(DataHandleRecordUpdate(includeKeys, KeyOnly(Head(ws)), KeyOnly(Null), rp),
                 FtRemoveCalls(includeKeys, Tail(ws), rp))
RECURSIVE FtAddCalls(_, _, _, _)
FtAddCalls(includeKeys, ws, newValue, rp) ==
    IF ws = <<>> THEN NoEffect
    ELSE AndThen(DataHandleRecordUpdate(includeKeys, KeyOnly(Null),
                                        [newValue EXCEPT !.key = Head(ws)], rp),
                 FtAddCalls(includeKeys, Tail(ws), newValue, rp))
FullTextIndexHandleRecordUpdate(includeKeys, oldValue, newValue, rp) ==
    AndThen(FtRemoveCalls(includeKeys, ftRemoved(oldValue.key, newValue.key)
                                         \o ftChanged(oldValue.key, newValue.key), rp),
            FtAddCalls(includeKeys, ftAdded(oldValue.key, newValue.key)
                                      \o ftChanged(oldValue.key, newValue.key), newValue, rp))

\* handleRecordUpdate of the index by its type
IndexHandleRecordUpdate(index, oldValue, newValue, rp) ==
    IF index.type = "normal"
    THEN DataHandleRecordUpdate(index.includeKeys, oldValue, newValue, rp)
    ELSE IF index.type = "array"
    THEN ArrayIndexHandleRecordUpdate(index.includeKeys, oldValue, newValue, rp)
    ELSE FullTextIndexHandleRecordUpdate(index.includeKeys, oldValue, newValue, rp)

InitUpdate ==
    /\ lockState = InitLockState
    /\ lockQueue = <<>>
    /\ lkHolders = {}
    /\ lkGranted = {}
    /\ lkNext = 1
    /\ store = InitStore
    /\ tree = EmptyTree
    /\ cache = EmptyCache
    /\ proc = [p \in Procs |-> IdleProc]
    /\ updates = 0
    /\ failures = 0
    /\ bKey = [r \in SeqRange(BuildRecs) |-> NoKey]
    /\ buildFile = NoFile
    /\ runFiles = [n \in RunNrs |-> NoFile]
    /\ mergeFile = NoFile
    /\ indexFile = EmptyIndexFile
    /\ bmem = IdleBuild
    /\ crashes = 0
    /\ arrays = [r \in Recs |-> <<>>]
    /\ arrayUnique = FALSE
    /\ arrayResult = [asked |-> FALSE]
    /\ arrayUpdates = 0
    /\ ftTexts = [r \in SeqRange(FtRecs) |-> <<>>]
    /\ ftTree = EmptyFtTree
    /\ ftCache = EmptyFtCache
    /\ ftParsed = {}
    /\ ftResult = [asked |-> FALSE]
    /\ ftUpdates = 0
    /\ ftQueries = 0
    /\ takeLeaves = <<<<>>>>
    /\ takeResult = [asked |-> FALSE]
    /\ qVals = [n \in 1..MaxNodes |-> [a |-> 1, b |-> 1]]
    /\ qIndex = FALSE
    /\ qResult = [asked |-> FALSE]
    /\ rpInput = [path |-> <<65>>, wildcards |-> <<>>, key |-> <<65>>]
    /\ rpStored = <<>>
    /\ rpParsed = [done |-> FALSE]
    /\ wnInline = [k \in WriteKeys |-> NoProp]
    /\ wnRecords = [k \in WriteKeys |-> NoProp]
    /\ wnLast = [written |-> FALSE]
    /\ wnWrites = 0
    /\ cServed = [asked |-> FALSE]
    /\ btUpdate = [old |-> <<>>, new |-> <<>>, started |-> FALSE]
    /\ btBatches = <<>>
    /\ btLog = <<>>
    /\ btFailures = 0
    /\ maxValues = 2
    /\ idxOpen = 0
    /\ fdOpen = FALSE
    /\ hPc = [p \in Procs |-> "idle"]
    /\ hOps = 0
    /\ ftWordCache = {}
    /\ upIndex \in [type : IndexTypes, includeKeys : IncludeKeyChoices]
    /\ upStored = NullRecord(upIndex.type)
    /\ upLast = [called |-> FALSE]
    /\ exSliding = FALSE
    /\ exClock = 0
    /\ exEntry = [exists |-> FALSE]
    /\ exTimers = {}
    /\ exPc = [p \in Procs |-> "idle"]
    /\ exNext = 1
    /\ exRemoved = [removed |-> FALSE]
    /\ maxEntriesPerNode = 2
    /\ uniqueKeys = FALSE
    /\ treeLeaves = <<[entries |-> <<>>, low |-> 0, id |-> 1, prevLeaf |-> 0, nextLeaf |-> 0]>>
    /\ leafThrown = FALSE
    /\ crLength = 0
    /\ crMaxEntries = NotGiven
    /\ crFillFactor = 100
    /\ crLeaves = <<>>
    /\ crNodes = <<>>
    /\ crPc = "start"
    /\ qsInput = <<>>
    /\ qsArr = <<>>
    /\ qsStack = <<>>
    /\ qsShell = [start |-> 0, end |-> 0, inc |-> 0, i |-> 0]
    /\ qsPc = "start"
    /\ qsPart = [start |-> 0, end |-> 0, depth |-> 0, i |-> 0, j |-> 0, pivot |-> 0]
    /\ qsI = 0
    /\ mnStore = [r \in Recs |-> Null]
    /\ mnMatched = {}
    /\ mnPending = {}
    /\ mnEvent = [name |-> "none"]
    /\ mnCalls = 0
    /\ gnParent = NoRecord
    /\ gnLast = [op |-> "none"]
    /\ buUnique = FALSE
    /\ buList = [k \in BuilderKeys |-> <<>>]
    /\ buThrown = FALSE

\* the record is written in storage and the index is told about it
UpdateRecord(newValue) ==
    /\ upLast' = [called |-> TRUE, old |-> upStored, new |-> newValue,
                  out |-> IndexHandleRecordUpdate(upIndex, upStored, newValue, "r1")]
    /\ upStored' = newValue
    /\ UNCHANGED <<upIndex, notUpdate>>

NextUpdate == \E newValue \in RecordValues(upIndex.type) : UpdateRecord(newValue)

SpecUpdate == InitUpdate /\ [][NextUpdate]_vars

\* the key values a record contributes to an index of the type
EntryKeys(type, value) ==
    IF type = "normal" THEN {value.key} \ {Null} ELSE SeqRange(value.key)
OpKeys(ops, type) == {ops[i].key : i \in {j \in 1..Len(ops) : ops[j].type = type}}
OpCount(ops, type) == Cardinality({j \in 1..Len(ops) : ops[j].type = type})

\* C26: for every index type, handleRecordUpdate of a created record (old
\* value null) adds the entries of the new value, that of a deleted record
\* (new value null) removes the entries of the old value, and neither throws.
C26_CreateAndDelete ==
    upLast.called =>
        /\ (upLast.old.null /\ ~upLast.new.null) =>
              /\ ~upLast.out.thrown
              /\ OpKeys(upLast.out.ops, "add") = EntryKeys(upIndex.type, upLast.new)
              /\ OpKeys(upLast.out.ops, "remove") = {}
        /\ (~upLast.old.null /\ upLast.new.null) =>
              /\ ~upLast.out.thrown
              /\ OpKeys(upLast.out.ops, "remove") = EntryKeys(upIndex.type, upLast.old)
              /\ OpKeys(upLast.out.ops, "add") = {}

\* the value of a child key of a record value, null when the record is null
ChildValue(value, childKey) == IF value.null THEN Null ELSE value[childKey]
SameForIndex ==
    /\ ChildValue(upLast.old, "key") = ChildValue(upLast.new, "key")
    /\ upIndex.includeKeys # <<>> => ChildValue(upLast.old, "inc") = ChildValue(upLast.new, "inc")

\* C27: when neither the indexed key value nor an included value of the
\* record has changed, DataIndex.handleRecordUpdate requests no lock, passes
\* no operation to the tree and leaves the cache as it is; otherwise it
\* issues at most one remove and at most one add.
C27_UnchangedNoEffect ==
    (upLast.called /\ upIndex.type = "normal") =>
        IF SameForIndex
        THEN upLast.out = NoEffect
        ELSE /\ OpCount(upLast.out.ops, "remove") <= 1
             /\ OpCount(upLast.out.ops, "add") <= 1

\* a record with another value of a key the index does not use has been written
C27_Witness ==
    /\ upLast.called
    /\ upIndex.type = "normal"
    /\ SameForIndex
    /\ upLast.old # upLast.new
    /\ upLast.out = NoEffect

(***************************************************************************)
(* Claims about the progress of the lock (SpecLockLive)                    *)
(***************************************************************************)
\* C28: when every granted lock is released at some time, every queued lock
\* request is granted at some time, and the lock is never marked as held
\* while nobody holds it.
C28_QueuedEventuallyGranted ==
    /\ [](lockState.isLocked => lkHolders # {})
    /\ \A l \in LockObjs : (l \in SeqRange(lockQueue)) ~> (l \in lkGranted)

\* every request of the behaviour has been made, the queued ones have been
\* granted, and every holder has released
C28_Witness ==
    /\ lkNext > MaxLocks
    /\ lkHolders = {}
    /\ lockQueue = <<>>
    /\ Cardinality({l \in lkGranted : l.queued}) >= 2

(***************************************************************************)
(* SpecExpiry: the timeouts of the cache entry of one (op, val), with      *)
(* queries for it and the time passing; no record is updated               *)
(***************************************************************************)
\* _cacheTimeoutSettings.duration in ticks
CacheDuration == 2
\* the last tick of a behaviour
MaxTime == 5
\* number of entries put into the cache in a behaviour
MaxCacheSets == 3

notExpiry == <<lockVars, lkVars, ixVars, buildVars, arrayVars, ftVars, takeVars, queryVars, pointerVars, writeVars, cacheVars, batchVars, capVars, handleVars, ftWordVars, updateVars, leafVars, createVars, sortVars, sortLocalVars, monitorVars, getVars, builderVars>>

\* setTimeout(clear, duration) by the entry with the number id
TimerOf(id, now) == [entry |-> id, due |-> now + CacheDuration]
\* extendLife: clearTimeout(cache.timeout), then a new timeout for the entry
extendLife(timers, id, now) ==
    {tm \in timers : tm.entry # id} \cup {TimerOf(id, now)}

InitExpiry ==
    /\ lockState = InitLockState
    /\ lockQueue = <<>>
    /\ lkHolders = {}
    /\ lkGranted = {}
    /\ lkNext = 1
    /\ store = InitStore
    /\ tree = EmptyTree
    /\ cache = EmptyCache
    /\ proc = [p \in Procs |-> IdleProc]
    /\ updates = 0
    /\ failures = 0
    /\ bKey = [r \in SeqRange(BuildRecs) |-> NoKey]
    /\ buildFile = NoFile
    /\ runFiles = [n \in RunNrs |-> NoFile]
    /\ mergeFile = NoFile
    /\ indexFile = EmptyIndexFile
    /\ bmem = IdleBuild
    /\ crashes = 0
    /\ arrays = [r \in Recs |-> <<>>]
    /\ arrayUnique = FALSE
    /\ arrayResult = [asked |-> FALSE]
    /\ arrayUpdates = 0
    /\ ftTexts = [r \in SeqRange(FtRecs) |-> <<>>]
    /\ ftTree = EmptyFtTree
    /\ ftCache = EmptyFtCache
    /\ ftParsed = {}
    /\ ftResult = [asked |-> FALSE]
    /\ ftUpdates = 0
    /\ ftQueries = 0
    /\ takeLeaves = <<<<>>>>
    /\ takeResult = [asked |-> FALSE]
    /\ qVals = [n \in 1..MaxNodes |-> [a |-> 1, b |-> 1]]
    /\ qIndex = FALSE
    /\ qResult = [asked |-> FALSE]
    /\ rpInput = [path |-> <<65>>, wildcards |-> <<>>, key |-> <<65>>]
    /\ rpStored = <<>>
    /\ rpParsed = [done |-> FALSE]
    /\ wnInline = [k \in WriteKeys |-> NoProp]
    /\ wnRecords = [k \in WriteKeys |-> NoProp]
    /\ wnLast = [written |-> FALSE]
    /\ wnWrites = 0
    /\ cServed = [asked |-> FALSE]
    /\ btUpdate = [old |-> <<>>, new |-> <<>>, started |-> FALSE]
    /\ btBatches = <<>>
    /\ btLog = <<>>
    /\ btFailures = 0
    /\ maxValues = 2
    /\ idxOpen = 0
    /\ fdOpen = FALSE
    /\ hPc = [p \in Procs |-> "idle"]
    /\ hOps = 0
    /\ ftWordCache = {}
    /\ upIndex = [type |-> "normal", includeKeys |-> <<>>]
    /\ upStored = [null |-> TRUE, key |-> Null, inc |-> Null]
    /\ upLast = [called |-> FALSE]
    /\ exSliding \in BOOLEAN
    /\ exClock = 0
    /\ exEntry = [exists |-> FALSE]
    /\ exTimers = {}
    /\ exPc = [p \in Procs |-> "idle"]
    /\ exNext = 1
    /\ exRemoved = [removed |-> FALSE]
    /\ maxEntriesPerNode = 2
    /\ uniqueKeys = FALSE
    /\ treeLeaves = <<[entries |-> <<>>, low |-> 0, id |-> 1, prevLeaf |-> 0, nextLeaf |-> 0]>>
    /\ leafThrown = FALSE
    /\ crLength = 0
    /\ crMaxEntries = NotGiven
    /\ crFillFactor = 100
    /\ crLeaves = <<>>
    /\ crNodes = <<>>
    /\ crPc = "start"
    /\ qsInput = <<>>
    /\ qsArr = <<>>
    /\ qsStack = <<>>
    /\ qsShell = [start |-> 0, end |-> 0, inc |-> 0, i |-> 0]
    /\ qsPc = "start"
    /\ qsPart = [start |-> 0, end |-> 0, depth |-> 0, i |-> 0, j |-> 0, pivot |-> 0]
    /\ qsI = 0
    /\ mnStore = [r \in Recs |-> Null]
    /\ mnMatched = {}
    /\ mnPending = {}
    /\ mnEvent = [name |-> "none"]
    /\ mnCalls = 0
    /\ gnParent = NoRecord
    /\ gnLast = [op |-> "none"]
    /\ buUnique = FALSE
    /\ buList = [k \in BuilderKeys |-> <<>>]
    /\ buThrown = FALSE

\* query(op, val): this.cache(op, val) finds the entry: extendLife
\* if sliding, and the query is answered with its results
ExpiryQueryHit(p) ==
    /\ exPc[p] = "idle"
    /\ exEntry.exists
    /\ exEntry' = [exEntry EXCEPT !.touched = exClock]
    /\ exTimers' = IF exSliding THEN extendLife(exTimers, exEntry.id, exClock)
                   ELSE exTimers
    /\ UNCHANGED <<exSliding, exClock, exPc, exNext, exRemoved, notExpiry>>

\* query(op, val): no entry: the query asks for the lock and searches the tree
ExpiryQueryMiss(p) ==
    /\ exPc[p] = "idle"
    /\ ~exEntry.exists
    /\ exNext + Cardinality({q \in Procs : exPc[q] = "searching"}) <= MaxCacheSets
    /\ exPc' = [exPc EXCEPT ![p] = "searching"]
    /\ UNCHANGED <<exSliding, exClock, exEntry, exTimers, exNext, exRemoved, notExpiry>>

\* the search has resolved: this.cache(op, val, entries) sets a new entry with
\* a timeout of its own in the map, over the entry that may be there
ExpiryCacheSet(p) ==
    /\ exPc[p] = "searching"
    /\ exPc' = [exPc EXCEPT ![p] = "idle"]
    /\ exEntry' = [exists |-> TRUE, id |-> exNext, touched |-> exClock]
    /\ exTimers' = exTimers \cup {TimerOf(exNext, exClock)}
    /\ exNext' = exNext + 1
    /\ UNCHANGED <<exSliding, exClock, exRemoved, notExpiry>>

\* a timeout is due: clear() deletes what the map holds for val
ExpiryTimeout(tm) ==
    /\ tm \in exTimers
    /\ tm.due = exClock
    /\ exTimers' = exTimers \ {tm}
    /\ exEntry' = [exists |-> FALSE]
    /\ exRemoved' = IF exEntry.exists
                    THEN [removed |-> TRUE, at |-> exClock, touched |-> exEntry.touched]
                    ELSE exRemoved
    /\ UNCHANGED <<exSliding, exClock, exPc, exNext, notExpiry>>

\* a tick passes; the timeouts that are due have run
ExpiryTick ==
    /\ exClock < MaxTime
    /\ \A tm \in exTimers : tm.due # exClock
    /\ exClock' = exClock + 1
    /\ UNCHANGED <<exSliding, exEntry, exTimers, exPc, exNext, exRemoved, notExpiry>>

NextExpiry ==
    \/ \E p \in Procs : ExpiryQueryHit(p)
    \/ \E p \in Procs : ExpiryQueryMiss(p)
    \/ \E p \in Procs : ExpiryCacheSet(p)
    \/ \E tm \in exTimers : ExpiryTimeout(tm)
    \/ ExpiryTick

SpecExpiry == InitExpiry /\ [][NextExpiry]_vars

\* C29: with sliding expiry and no update, the cache entry of (op, val) is
\* removed one timeout duration after its last read, or after its creation
\* if it was never read, not before and not after; until then it is there
\* for every query.
C29_SlidingExpiry ==
    exSliding =>
        /\ exRemoved.removed => exRemoved.at = exRemoved.touched + CacheDuration
        /\ exEntry.exists => exClock <= exEntry.touched + CacheDuration

(***************************************************************************)
(* SpecLeaf: BPlusTreeLeaf.add on the leaves of an in-memory tree          *)
(***************************************************************************)
\* the largest maxEntriesPerNode of a tree (255 in the source)
MaxNodeEntries == 3
\* keys are 1..MaxLeafKey
MaxLeafKey == 5
\* the largest number of values of one entry
MaxLeafValues == 2

notLeaf == <<lockVars, lkVars, ixVars, buildVars, arrayVars, ftVars, takeVars, queryVars, pointerVars, writeVars, cacheVars, batchVars, capVars, handleVars, ftWordVars, updateVars, expiryVars, createVars, sortVars, sortLocalVars, monitorVars, getVars, builderVars>>

\* entries.findIndex(pred): the first index pred holds at, 0 if there is none
FindIndexOf(S) == IF S = {} THEN 0 ELSE CHOOSE i \in S : \A j \in S : i <= j
\* findIndex(entry => _isEqual(entry.key, key))
EntryIndex(entries, key) ==
    FindIndexOf({i \in 1..Len(entries) : entries[i].key = key})
\* an insert that never finds a larger key
InsertIndexNone(entries, key) == 0
\* findIndex(otherEntry => _isMore(otherEntry.key, entry.key))
InsertIndex(entries, key) ==
    FindIndexOf({i \in 1..Len(entries) : entries[i].key > key})
\* entries.push(entry) or entries.splice(insertIndex, 0, entry)
LeafInsert(entries, entry) ==
    LET insertIndex == InsertIndex(entries, entry.key)
    IN  IF insertIndex = 0 THEN Append(entries, entry)
        ELSE SubSeq(entries, 1, insertIndex - 1) \o <<entry>>
             \o SubSeq(entries, insertIndex, Len(entries))
\* Math.ceil(maxEntriesPerNode / 2)
SplitIndexOf(max) == (max + 1) \div 2
\* the leaf a key is routed to: the last one whose routing key is not above it
FindLeaf(lvs, key) ==
    CHOOSE i \in 1..Len(lvs) :
        /\ i = 1 \/ lvs[i].low <= key
        /\ \A j \in (i + 1)..Len(lvs) : lvs[j].low > key
\* the leaves with leaf i replaced by the leaves in repl
ReplaceLeaf(lvs, i, repl) ==
    SubSeq(lvs, 1, i - 1) \o repl \o SubSeq(lvs, i + 1, Len(lvs))
\* a split that leaves the prevLeaf of the leaf behind as it is
LinkPrevNone(lvs, nextLeaf, newLeaf) == lvs
\* if (this.nextLeaf): newLeaf.nextLeaf.prevLeaf = newLeaf
LinkPrev(lvs, nextLeaf, newLeaf) ==
    [x \in 1..Len(lvs) |->
        IF lvs[x].id = nextLeaf THEN [lvs[x] EXCEPT !.prevLeaf = newLeaf] ELSE lvs[x]]
\* leaf.add for a key the leaf has no entry of: the entry is put in its place
\* and a leaf with too many entries is split, the new leaf linked behind it
AddNewKey(lvs, i, key, max) ==
    LET leaf == lvs[i]
        entry == [key |-> key, values |-> 1]
        all == LeafInsert(leaf.entries, entry)
        splitIndex == SplitIndexOf(max)
        moveEntries == SubSeq(all, splitIndex + 1, Len(all))
    IN  IF leaf.entries = <<>>
        THEN ReplaceLeaf(lvs, i, <<[leaf EXCEPT !.entries = <<entry>>]>>)
        ELSE IF Len(all) > max
        THEN LET newLeaf == Len(lvs) + 1
             IN  ReplaceLeaf(LinkPrev(lvs, leaf.nextLeaf, newLeaf), i,
                     << [leaf EXCEPT !.entries = SubSeq(all, 1, splitIndex),
                                     !.nextLeaf = newLeaf],
                        [entries |-> moveEntries, low |-> moveEntries[1].key,
                         id |-> newLeaf, prevLeaf |-> leaf.id, nextLeaf |-> leaf.nextLeaf] >>)
        ELSE ReplaceLeaf(lvs, i, <<[leaf EXCEPT !.entries = all]>>)

InitLeaf ==
    /\ lockState = InitLockState
    /\ lockQueue = <<>>
    /\ lkHolders = {}
    /\ lkGranted = {}
    /\ lkNext = 1
    /\ store = InitStore
    /\ tree = EmptyTree
    /\ cache = EmptyCache
    /\ proc = [p \in Procs |-> IdleProc]
    /\ updates = 0
    /\ failures = 0
    /\ bKey = [r \in SeqRange(BuildRecs) |-> NoKey]
    /\ buildFile = NoFile
    /\ runFiles = [n \in RunNrs |-> NoFile]
    /\ mergeFile = NoFile
    /\ indexFile = EmptyIndexFile
    /\ bmem = IdleBuild
    /\ crashes = 0
    /\ arrays = [r \in Recs |-> <<>>]
    /\ arrayUnique = FALSE
    /\ arrayResult = [asked |-> FALSE]
    /\ arrayUpdates = 0
    /\ ftTexts = [r \in SeqRange(FtRecs) |-> <<>>]
    /\ ftTree = EmptyFtTree
    /\ ftCache = EmptyFtCache
    /\ ftParsed = {}
    /\ ftResult = [asked |-> FALSE]
    /\ ftUpdates = 0
    /\ ftQueries = 0
    /\ takeLeaves = <<<<>>>>
    /\ takeResult = [asked |-> FALSE]
    /\ qVals = [n \in 1..MaxNodes |-> [a |-> 1, b |-> 1]]
    /\ qIndex = FALSE
    /\ qResult = [asked |-> FALSE]
    /\ rpInput = [path |-> <<65>>, wildcards |-> <<>>, key |-> <<65>>]
    /\ rpStored = <<>>
    /\ rpParsed = [done |-> FALSE]
    /\ wnInline = [k \in WriteKeys |-> NoProp]
    /\ wnRecords = [k \in WriteKeys |-> NoProp]
    /\ wnLast = [written |-> FALSE]
    /\ wnWrites = 0
    /\ cServed = [asked |-> FALSE]
    /\ btUpdate = [old |-> <<>>, new |-> <<>>, started |-> FALSE]
    /\ btBatches = <<>>
    /\ btLog = <<>>
    /\ btFailures = 0
    /\ maxValues = 2
    /\ idxOpen = 0
    /\ fdOpen = FALSE
    /\ hPc = [p \in Procs |-> "idle"]
    /\ hOps = 0
    /\ ftWordCache = {}
    /\ upIndex = [type |-> "normal", includeKeys |-> <<>>]
    /\ upStored = [null |-> TRUE, key |-> Null, inc |-> Null]
    /\ upLast = [called |-> FALSE]
    /\ exSliding = FALSE
    /\ exClock = 0
    /\ exEntry = [exists |-> FALSE]
    /\ exTimers = {}
    /\ exPc = [p \in Procs |-> "idle"]
    /\ exNext = 1
    /\ exRemoved = [removed |-> FALSE]
    /\ maxEntriesPerNode \in 1..MaxNodeEntries
    /\ uniqueKeys \in BOOLEAN
    /\ treeLeaves = <<[entries |-> <<>>, low |-> 0, id |-> 1, prevLeaf |-> 0, nextLeaf |-> 0]>>
    /\ leafThrown = FALSE
    /\ crLength = 0
    /\ crMaxEntries = NotGiven
    /\ crFillFactor = 100
    /\ crLeaves = <<>>
    /\ crNodes = <<>>
    /\ crPc = "start"
    /\ qsInput = <<>>
    /\ qsArr = <<>>
    /\ qsStack = <<>>
    /\ qsShell = [start |-> 0, end |-> 0, inc |-> 0, i |-> 0]
    /\ qsPc = "start"
    /\ qsPart = [start |-> 0, end |-> 0, depth |-> 0, i |-> 0, j |-> 0, pivot |-> 0]
    /\ qsI = 0
    /\ mnStore = [r \in Recs |-> Null]
    /\ mnMatched = {}
    /\ mnPending = {}
    /\ mnEvent = [name |-> "none"]
    /\ mnCalls = 0
    /\ gnParent = NoRecord
    /\ gnLast = [op |-> "none"]
    /\ buUnique = FALSE
    /\ buList = [k \in BuilderKeys |-> <<>>]
    /\ buThrown = FALSE

\* tree.add(key, recordPointer): the leaf of the key is found and leaf.add
\* throws on a duplicate of a unique key, pushes a value to the entry of the
\* key, or adds a new entry
LeafAdd(key) ==
    LET i == FindLeaf(treeLeaves, key)
        entryIndex == EntryIndex(treeLeaves[i].entries, key)
    IN  /\ entryIndex > 0 /\ ~uniqueKeys
            => treeLeaves[i].entries[entryIndex].values < MaxLeafValues
        /\ IF entryIndex > 0
           THEN IF uniqueKeys
                THEN /\ leafThrown' = TRUE
                     /\ UNCHANGED treeLeaves
                ELSE /\ leafThrown' = FALSE
                     /\ treeLeaves' = [treeLeaves EXCEPT ![i].entries[entryIndex].values = @ + 1]
           ELSE /\ leafThrown' = FALSE
                /\ treeLeaves' = AddNewKey(treeLeaves, i, key, maxEntriesPerNode)
        /\ UNCHANGED <<maxEntriesPerNode, uniqueKeys, notLeaf>>

NextLeaf ==
    \E key \in 1..MaxLeafKey : LeafAdd(key)

SpecLeaf == InitLeaf /\ [][NextLeaf]_vars

\* C30: after any sequence of adds every leaf's entries are strictly
\* ascending by key, no leaf holds more than maxEntriesPerNode entries, and
\* the last key of each leaf is less than the first key of its next leaf.
C30_LeafOrdering ==
    \A i \in 1..Len(treeLeaves) :
        LET entries == treeLeaves[i].entries
        IN  /\ \A a, b \in 1..Len(entries) : a < b => entries[a].key < entries[b].key
            /\ Len(entries) <= maxEntriesPerNode
            /\ i < Len(treeLeaves) =>
                   /\ entries # <<>> /\ treeLeaves[i + 1].entries # <<>>
                   /\ entries[Len(entries)].key < treeLeaves[i + 1].entries[1].key
\* three leaves after two splits, every key of 1..MaxLeafKey added, the
\* second leaf split off before a smaller key came into the first
C30_Witness ==
    /\ Len(treeLeaves) >= 3
    /\ \A key \in 1..MaxLeafKey :
           \E i \in 1..Len(treeLeaves) : EntryIndex(treeLeaves[i].entries, key) > 0
    /\ treeLeaves[1].entries[1].key < treeLeaves[2].low - 1
    /\ \E i \in 1..Len(treeLeaves) : Len(treeLeaves[i].entries) = maxEntriesPerNode

(***************************************************************************)
(* SpecCreate: BPlusTreeBuilder.create, level by level                     *)
(***************************************************************************)
\* the longest list of the builder
MaxListLen == 30
\* the largest maxEntries given to create
MaxCreateEntries == 6
\* the fill factors of the builder
FillFactors == {50, 100}
minNodeSize == 3
maxNodeSize == 255

notCreate == <<lockVars, lkVars, ixVars, buildVars, arrayVars, ftVars, takeVars, queryVars, pointerVars, writeVars, cacheVars, batchVars, capVars, handleVars, ftWordVars, updateVars, expiryVars, leafVars, sortVars, sortLocalVars, monitorVars, getVars, builderVars>>

CeilDiv(a, b) == (a + b - 1) \div b
Larger(a, b) == IF a > b THEN a ELSE b
EntriesPerNode(length, maxEntries) ==
    IF maxEntries # NotGiven THEN maxEntries
    ELSE Min(maxNodeSize, Larger(minNodeSize, CeilDiv(length, 10)))
EntriesPerLeaf(perNode, fillFactor) ==
    Larger(minNodeSize, (perNode * fillFactor) \div 100)
MinParentEntries(perNode) == Larger(1, perNode \div 2)
NrOfLeafs(length, perLeaf) == Larger(1, CeilDiv(length, perLeaf))
\* list.slice(fromIndex, fromIndex + entriesPerLeaf) for the leaf i
LeafKeys(length, perLeaf, i) ==
    [x \in 1..(Min(i * perLeaf, length) - (i - 1) * perLeaf) |-> (i - 1) * perLeaf + x]
NewNode == [entries |-> <<>>, gtChild |-> 0]
Result(nodes) == [nodes |-> nodes, thrown |-> FALSE]
TypeError == [nodes |-> <<>>, thrown |-> TRUE]

\* the first key of the leftmost leaf under the child idx of the level lvl
\* (0: the leaves), going down by entries[0].ltChild; 0 for the read of
\* entries[0] of a node without entries
RECURSIVE FirstLeafKey(_, _, _, _)
FirstLeafKey(leaves, nodes, lvl, idx) ==
    IF lvl = 0 THEN leaves[idx][1]
    ELSE IF nodes[lvl][idx].entries = <<>> THEN 0
    ELSE FirstLeafKey(leaves, nodes, lvl - 1, nodes[lvl][idx].entries[1].ltChild)

\* the key of a moved entry taken from the first entry of firstChild
MovedKeyOfEntry(leaves, nodes, lvl, firstChild) ==
    IF lvl = 0 THEN leaves[firstChild][1]
    ELSE IF nodes[lvl][firstChild].entries = <<>> THEN 0
    ELSE nodes[lvl][firstChild].entries[1].key
\* moveEntry.key: the first key of firstChild, a leaf, or of the leftmost
\* leaf under firstChild, a node
MovedKey(leaves, nodes, lvl, firstChild) ==
    FirstLeafKey(leaves, nodes, lvl, firstChild)
\* the loop over nrOfParentEntries2Move: the last entry of the parent before
\* p goes to the front of p with the key of the first child of p
RECURSIVE MoveEntries(_, _, _, _, _, _, _)
MoveEntries(leaves, nodes, lvl, parents, p, child, toMove) ==
    IF toMove = 0 THEN Result(parents)
    ELSE IF p = 1 \/ parents[p - 1].entries = <<>> THEN TypeError
    ELSE LET parent == parents[p]
             prevParent == parents[p - 1]
             firstChild == IF parent.entries = <<>> THEN child
                           ELSE parent.entries[1].ltChild
             moveEntry == prevParent.entries[Len(prevParent.entries)]
             key == MovedKey(leaves, nodes, lvl, firstChild)
         IN  IF key = 0 THEN TypeError
             ELSE MoveEntries(leaves, nodes, lvl,
                      [parents EXCEPT
                          ![p - 1] = [entries |-> SubSeq(prevParent.entries, 1, Len(prevParent.entries) - 1),
                                      gtChild |-> moveEntry.ltChild],
                          ![p] = [entries |-> <<[key |-> key, ltChild |-> prevParent.gtChild]>> \o parent.entries,
                                  gtChild |-> parent.gtChild]],
                      p, child, toMove - 1)

\* the loop over the nrOfNodesAtLevel children of a level: the last child of
\* a parent becomes its gtChild, any other gets an entry with the first key
\* of what follows it
RECURSIVE AddChildren(_, _, _, _, _, _, _)
AddChildren(leaves, nodes, lvl, count, perNode, parents, child) ==
    IF child > count THEN Result(parents)
    ELSE LET i == child - 1
             parentConnections == perNode + 1
             parentIndex == i \div parentConnections
             p == parentIndex + 1
             isLast == ((i + 1) \div parentConnections > parentIndex) \/ i = count - 1
         IN  IF isLast
             THEN LET withGt == [parents EXCEPT ![p].gtChild = child]
                      short == MinParentEntries(perNode) - Len(parents[p].entries)
                      moved == IF Len(parents) > 1 /\ short > 0
                               THEN MoveEntries(leaves, nodes, lvl, withGt, p, child, short)
                               ELSE Result(withGt)
                  IN  IF moved.thrown THEN TypeError
                      ELSE AddChildren(leaves, nodes, lvl, count, perNode, moved.nodes, child + 1)
             ELSE LET key == FirstLeafKey(leaves, nodes, lvl, child + 1)
                  IN  IF key = 0 THEN TypeError
                      ELSE AddChildren(leaves, nodes, lvl, count, perNode,
                               [parents EXCEPT ![p].entries = Append(@, [key |-> key, ltChild |-> child])],
                               child + 1)

\* one round of the while loop: the parents of the count nodes of a level
CreateParents(leaves, nodes, lvl, count, perNode) ==
    AddChildren(leaves, nodes, lvl, count, perNode,
                [p \in 1..CeilDiv(count, perNode + 1) |-> NewNode], 1)

InitCreate ==
    /\ lockState = InitLockState
    /\ lockQueue = <<>>
    /\ lkHolders = {}
    /\ lkGranted = {}
    /\ lkNext = 1
    /\ store = InitStore
    /\ tree = EmptyTree
    /\ cache = EmptyCache
    /\ proc = [p \in Procs |-> IdleProc]
    /\ updates = 0
    /\ failures = 0
    /\ bKey = [r \in SeqRange(BuildRecs) |-> NoKey]
    /\ buildFile = NoFile
    /\ runFiles = [n \in RunNrs |-> NoFile]
    /\ mergeFile = NoFile
    /\ indexFile = EmptyIndexFile
    /\ bmem = IdleBuild
    /\ crashes = 0
    /\ arrays = [r \in Recs |-> <<>>]
    /\ arrayUnique = FALSE
    /\ arrayResult = [asked |-> FALSE]
    /\ arrayUpdates = 0
    /\ ftTexts = [r \in SeqRange(FtRecs) |-> <<>>]
    /\ ftTree = EmptyFtTree
    /\ ftCache = EmptyFtCache
    /\ ftParsed = {}
    /\ ftResult = [asked |-> FALSE]
    /\ ftUpdates = 0
    /\ ftQueries = 0
    /\ takeLeaves = <<<<>>>>
    /\ takeResult = [asked |-> FALSE]
    /\ qVals = [n \in 1..MaxNodes |-> [a |-> 1, b |-> 1]]
    /\ qIndex = FALSE
    /\ qResult = [asked |-> FALSE]
    /\ rpInput = [path |-> <<65>>, wildcards |-> <<>>, key |-> <<65>>]
    /\ rpStored = <<>>
    /\ rpParsed = [done |-> FALSE]
    /\ wnInline = [k \in WriteKeys |-> NoProp]
    /\ wnRecords = [k \in WriteKeys |-> NoProp]
    /\ wnLast = [written |-> FALSE]
    /\ wnWrites = 0
    /\ cServed = [asked |-> FALSE]
    /\ btUpdate = [old |-> <<>>, new |-> <<>>, started |-> FALSE]
    /\ btBatches = <<>>
    /\ btLog = <<>>
    /\ btFailures = 0
    /\ maxValues = 2
    /\ idxOpen = 0
    /\ fdOpen = FALSE
    /\ hPc = [p \in Procs |-> "idle"]
    /\ hOps = 0
    /\ ftWordCache = {}
    /\ upIndex = [type |-> "normal", includeKeys |-> <<>>]
    /\ upStored = [null |-> TRUE, key |-> Null, inc |-> Null]
    /\ upLast = [called |-> FALSE]
    /\ exSliding = FALSE
    /\ exClock = 0
    /\ exEntry = [exists |-> FALSE]
    /\ exTimers = {}
    /\ exPc = [p \in Procs |-> "idle"]
    /\ exNext = 1
    /\ exRemoved = [removed |-> FALSE]
    /\ maxEntriesPerNode = 2
    /\ uniqueKeys = FALSE
    /\ treeLeaves = <<[entries |-> <<>>, low |-> 0, id |-> 1, prevLeaf |-> 0, nextLeaf |-> 0]>>
    /\ leafThrown = FALSE
    /\ crLength \in 0..MaxListLen
    /\ crMaxEntries \in (1..MaxCreateEntries) \cup {NotGiven}
    /\ crFillFactor \in FillFactors
    /\ crLeaves = <<>>
    /\ crNodes = <<>>
    /\ crPc = "start"
    /\ qsInput = <<>>
    /\ qsArr = <<>>
    /\ qsStack = <<>>
    /\ qsShell = [start |-> 0, end |-> 0, inc |-> 0, i |-> 0]
    /\ qsPc = "start"
    /\ qsPart = [start |-> 0, end |-> 0, depth |-> 0, i |-> 0, j |-> 0, pivot |-> 0]
    /\ qsI = 0
    /\ mnStore = [r \in Recs |-> Null]
    /\ mnMatched = {}
    /\ mnPending = {}
    /\ mnEvent = [name |-> "none"]
    /\ mnCalls = 0
    /\ gnParent = NoRecord
    /\ gnLast = [op |-> "none"]
    /\ buUnique = FALSE
    /\ buList = [k \in BuilderKeys |-> <<>>]
    /\ buThrown = FALSE

\* the first round of the loop: the leaves and their parents
CreateLeaves ==
    /\ crPc = "start"
    /\ LET perNode == EntriesPerNode(crLength, crMaxEntries)
           perLeaf == EntriesPerLeaf(perNode, crFillFactor)
           nrOfLeafs == NrOfLeafs(crLength, perLeaf)
           leaves == [i \in 1..nrOfLeafs |-> LeafKeys(crLength, perLeaf, i)]
           made == CreateParents(leaves, <<>>, 0, nrOfLeafs, perNode)
       IN  /\ crLeaves' = leaves
           /\ crNodes' = IF made.thrown \/ nrOfLeafs = 1 THEN <<>> ELSE <<made.nodes>>
           /\ crPc' = IF made.thrown THEN "thrown"
                      ELSE IF nrOfLeafs = 1 \/ Len(made.nodes) = 1 THEN "done"
                      ELSE "levels"
    /\ UNCHANGED <<crLength, crMaxEntries, crFillFactor, notCreate>>

\* a further round of the loop: the parents of the nodes made in the last
CreateLevel ==
    /\ crPc = "levels"
    /\ LET perNode == EntriesPerNode(crLength, crMaxEntries)
           lvl == Len(crNodes)
           made == CreateParents(crLeaves, crNodes, lvl, Len(crNodes[lvl]), perNode)
       IN  /\ crNodes' = IF made.thrown THEN crNodes ELSE Append(crNodes, made.nodes)
           /\ crPc' = IF made.thrown THEN "thrown"
                      ELSE IF Len(made.nodes) = 1 THEN "done"
                      ELSE "levels"
    /\ UNCHANGED <<crLength, crMaxEntries, crFillFactor, crLeaves, notCreate>>

NextCreate ==
    \/ CreateLeaves
    \/ CreateLevel

SpecCreate == InitCreate /\ [][NextCreate]_vars

\* the children of a node, first to last
ChildrenOf(node) ==
    [x \in 1..(Len(node.entries) + 1) |->
        IF x <= Len(node.entries) THEN node.entries[x].ltChild ELSE node.gtChild]
\* the keys of the leaves under the child idx of the level lvl (0: the leaves)
RECURSIVE KeysUnder(_, _)
KeysUnder(lvl, idx) ==
    IF lvl = 0 THEN SeqRange(crLeaves[idx])
    ELSE UNION {KeysUnder(lvl - 1, c) : c \in SeqRange(ChildrenOf(crNodes[lvl][idx]))}
\* the tree create returns is there
Created == crPc = "done"

\* C31: in the tree create returns, every key under the ltChild of an entry
\* is below the key of the entry, every key under gtChild is at least the
\* key of the last entry, and the key of an entry is the smallest key under
\* the child to its right, also in the parents that have taken entries of
\* the parent before them.
C31_RoutingCorrect ==
    Created =>
        \A lvl \in 1..Len(crNodes) : \A idx \in 1..Len(crNodes[lvl]) :
            LET node == crNodes[lvl][idx]
                children == ChildrenOf(node)
            IN  \A x \in 1..Len(node.entries) :
                    /\ \A k \in KeysUnder(lvl - 1, children[x]) : k < node.entries[x].key
                    /\ \A k \in KeysUnder(lvl - 1, children[x + 1]) : k >= node.entries[x].key
                    /\ node.entries[x].key \in KeysUnder(lvl - 1, children[x + 1])
                    /\ \A k \in KeysUnder(lvl - 1, node.gtChild) :
                           k >= node.entries[Len(node.entries)].key

\* a tree with two levels of nodes or more, where the last node of a level
\* of nodes has taken entries, with their nodes, of the node before it
C31_Witness ==
    /\ Created
    /\ \E lvl \in 2..Len(crNodes) :
           LET last == Len(crNodes[lvl])
           IN  /\ last > 1
               /\ crNodes[lvl][last].entries # <<>>
               /\ crNodes[lvl][last].entries[1].ltChild
                      < (last - 1) * (EntriesPerNode(crLength, crMaxEntries) + 1) + 1

\* C36: in the tree create returns, no leaf and no node holds more than
\* maxEntries entries, and every node but the root holds at least
\* max(1, floor(maxEntries / 2)) entries.
C36_NodeSizes ==
    (Created /\ crMaxEntries # NotGiven) =>
        /\ \A i \in 1..Len(crLeaves) : Len(crLeaves[i]) <= crMaxEntries
        /\ \A lvl \in 1..Len(crNodes) : \A idx \in 1..Len(crNodes[lvl]) :
               /\ Len(crNodes[lvl][idx].entries) <= crMaxEntries
               /\ lvl < Len(crNodes) =>
                      Len(crNodes[lvl][idx].entries) >= MinParentEntries(crMaxEntries)

(***************************************************************************)
(* SpecSort: fastQuickSort, one round of its loops at a time               *)
(***************************************************************************)
\* the longest array of a pattern
MaxSortLen == 26
\* the longest array with every choice of values
MaxSmallLen == 4
\* the values of the arrays with every choice of values
MaxSmallVal == 3
\* a partition longer than this is put on the stack
SmallPartition == 16

notSort == <<lockVars, lkVars, ixVars, buildVars, arrayVars, ftVars, takeVars, queryVars, pointerVars, writeVars, cacheVars, batchVars, capVars, handleVars, ftWordVars, updateVars, expiryVars, leafVars, createVars, monitorVars, getVars, builderVars>>

\* an array indexed from 0
ArrayOf(s) == [i \in 0..(Len(s) - 1) |-> s[i + 1]]
Length(arr) == Cardinality(DOMAIN arr)
\* Math.round(n / 2) for n >= 0
RoundHalf(n) == (n + 1) \div 2
\* Math.round(inc / 2.2)
RoundOver2_2(inc) == (10 * inc + 11) \div 22
RECURSIVE FloorLog2(_)
FloorLog2(n) == IF n <= 1 THEN 0 ELSE 1 + FloorLog2(n \div 2)
\* the default compareFn
compareFn(a, b) == a - b
swap(arr, a, b) == [arr EXCEPT ![a] = arr[b], ![b] = arr[a]]

\* inplaceQuickSortPartition: the scans of i upwards and j downwards
RECURSIVE ScanUp(_, _, _)
ScanUp(arr, i, pivot) ==
    IF compareFn(arr[i], pivot) < 0 THEN ScanUp(arr, i + 1, pivot) ELSE i
RECURSIVE ScanDown(_, _, _)
ScanDown(arr, j, pivot) ==
    IF compareFn(pivot, arr[j]) < 0 THEN ScanDown(arr, j - 1, pivot) ELSE j
\* insertionSort: the inner loop, which ends at the last j below i with
\* arr[j] <= value, or at -1
RECURSIVE InsertPlace(_, _, _)
InsertPlace(arr, j, value) ==
    IF j >= 0 /\ ~(compareFn(arr[j], value) <= 0)
    THEN InsertPlace(arr, j - 1, value) ELSE j
\* an inner loop that moves nothing
InsertDownNone(arr, i) == arr
\* every arr[j] the inner loop has passed is moved up by one and value is
\* put at j + 1
InsertDown(arr, i) ==
    LET j == InsertPlace(arr, i - 1, arr[i])
    IN  [m \in DOMAIN arr |->
            IF m = j + 1 THEN arr[i]
            ELSE IF m > j + 1 /\ m <= i THEN arr[m - 1]
            ELSE arr[m]]

\* shellSortBound: the inner while loop, which puts arr[i] in its place
RECURSIVE ShellDown(_, _, _, _)
ShellDown(arr, inc, j, tt) ==
    IF j >= inc /\ compareFn(arr[j - inc], tt) > 0
    THEN ShellDown([arr EXCEPT ![j] = arr[j - inc]], inc, j - inc, tt)
    ELSE [arr EXCEPT ![j] = tt]
\* the arrays sorted: every array of up to MaxSmallLen small values, and for
\* every length up to MaxSortLen the ascending, the descending and the
\* constant array, one of two values in turn, the array whose middle element
\* is the largest of every partition that starts at 0, and the array whose
\* middle element is the smallest of every partition that ends at the end
RECURSIVE MiddleLargest(_, _, _)
MiddleLargest(cur, vals, end) ==
    IF end = 0 THEN vals
    ELSE LET p == IF end = 1 THEN 0 ELSE RoundHalf(end)
             q == IF p > end - 1 THEN end - 1 ELSE p
         IN  MiddleLargest(swap(cur, q, end - 1), [vals EXCEPT ![cur[q]] = end], end - 1)
RECURSIVE MiddleSmallest(_, _, _, _)
MiddleSmallest(cur, vals, start, n) ==
    IF start >= n THEN vals
    ELSE LET p == RoundHalf(start + n)
             q == IF p > n - 1 THEN n - 1 ELSE p
         IN  MiddleSmallest(swap(cur, q, start), [vals EXCEPT ![cur[q]] = start + 1], start + 1, n)
Patterns(n) ==
    { [i \in 0..(n - 1) |-> i + 1],
      [i \in 0..(n - 1) |-> n - i],
      [i \in 0..(n - 1) |-> 1],
      [i \in 0..(n - 1) |-> 1 + (i % 2)],
      MiddleLargest([i \in 0..(n - 1) |-> i], [i \in 0..(n - 1) |-> 0], n),
      MiddleSmallest([i \in 0..(n - 1) |-> i], [i \in 0..(n - 1) |-> 0], 0, n) }
SortInputs ==
    UNION {[0..(n - 1) -> 1..MaxSmallVal] : n \in 0..MaxSmallLen}
    \cup UNION {Patterns(n) : n \in 0..MaxSortLen}

InitSort ==
    /\ lockState = InitLockState
    /\ lockQueue = <<>>
    /\ lkHolders = {}
    /\ lkGranted = {}
    /\ lkNext = 1
    /\ store = InitStore
    /\ tree = EmptyTree
    /\ cache = EmptyCache
    /\ proc = [p \in Procs |-> IdleProc]
    /\ updates = 0
    /\ failures = 0
    /\ bKey = [r \in SeqRange(BuildRecs) |-> NoKey]
    /\ buildFile = NoFile
    /\ runFiles = [n \in RunNrs |-> NoFile]
    /\ mergeFile = NoFile
    /\ indexFile = EmptyIndexFile
    /\ bmem = IdleBuild
    /\ crashes = 0
    /\ arrays = [r \in Recs |-> <<>>]
    /\ arrayUnique = FALSE
    /\ arrayResult = [asked |-> FALSE]
    /\ arrayUpdates = 0
    /\ ftTexts = [r \in SeqRange(FtRecs) |-> <<>>]
    /\ ftTree = EmptyFtTree
    /\ ftCache = EmptyFtCache
    /\ ftParsed = {}
    /\ ftResult = [asked |-> FALSE]
    /\ ftUpdates = 0
    /\ ftQueries = 0
    /\ takeLeaves = <<<<>>>>
    /\ takeResult = [asked |-> FALSE]
    /\ qVals = [n \in 1..MaxNodes |-> [a |-> 1, b |-> 1]]
    /\ qIndex = FALSE
    /\ qResult = [asked |-> FALSE]
    /\ rpInput = [path |-> <<65>>, wildcards |-> <<>>, key |-> <<65>>]
    /\ rpStored = <<>>
    /\ rpParsed = [done |-> FALSE]
    /\ wnInline = [k \in WriteKeys |-> NoProp]
    /\ wnRecords = [k \in WriteKeys |-> NoProp]
    /\ wnLast = [written |-> FALSE]
    /\ wnWrites = 0
    /\ cServed = [asked |-> FALSE]
    /\ btUpdate = [old |-> <<>>, new |-> <<>>, started |-> FALSE]
    /\ btBatches = <<>>
    /\ btLog = <<>>
    /\ btFailures = 0
    /\ maxValues = 2
    /\ idxOpen = 0
    /\ fdOpen = FALSE
    /\ hPc = [p \in Procs |-> "idle"]
    /\ hOps = 0
    /\ ftWordCache = {}
    /\ upIndex = [type |-> "normal", includeKeys |-> <<>>]
    /\ upStored = [null |-> TRUE, key |-> Null, inc |-> Null]
    /\ upLast = [called |-> FALSE]
    /\ exSliding = FALSE
    /\ exClock = 0
    /\ exEntry = [exists |-> FALSE]
    /\ exTimers = {}
    /\ exPc = [p \in Procs |-> "idle"]
    /\ exNext = 1
    /\ exRemoved = [removed |-> FALSE]
    /\ maxEntriesPerNode = 2
    /\ uniqueKeys = FALSE
    /\ treeLeaves = <<[entries |-> <<>>, low |-> 0, id |-> 1, prevLeaf |-> 0, nextLeaf |-> 0]>>
    /\ leafThrown = FALSE
    /\ crLength = 0
    /\ crMaxEntries = NotGiven
    /\ crFillFactor = 100
    /\ crLeaves = <<>>
    /\ crNodes = <<>>
    /\ crPc = "start"
    /\ qsInput \in SortInputs
    /\ qsArr = qsInput
    /\ qsStack = <<>>
    /\ qsShell = [start |-> 0, end |-> 0, inc |-> 0, i |-> 0]
    /\ qsPc = "start"
    /\ qsPart = [start |-> 0, end |-> 0, depth |-> 0, i |-> 0, j |-> 0, pivot |-> 0]
    /\ qsI = 0
    /\ mnStore = [r \in Recs |-> Null]
    /\ mnMatched = {}
    /\ mnPending = {}
    /\ mnEvent = [name |-> "none"]
    /\ mnCalls = 0
    /\ gnParent = NoRecord
    /\ gnLast = [op |-> "none"]
    /\ buUnique = FALSE
    /\ buList = [k \in BuilderKeys |-> <<>>]
    /\ buThrown = FALSE

\* fastQuickSort up to its while loop
SortStart ==
    /\ qsPc = "start"
    /\ IF Length(qsArr) <= 1
       THEN /\ qsPc' = "done"
            /\ UNCHANGED qsStack
       ELSE /\ qsPc' = "loop"
            /\ qsStack' = << <<0, Length(qsArr), 2 * FloorLog2(Length(qsArr))>> >>
    /\ UNCHANGED <<qsInput, qsArr, qsShell, qsPart, qsI, notSort>>

\* one round of the while loop with depth left: inplaceQuickSortPartition
\* is called with the pivot in the middle
SortPartition ==
    /\ qsPc = "loop"
    /\ qsStack # <<>>
    /\ LET entry == qsStack[Len(qsStack)]
       IN  /\ entry[3] # 0
           /\ qsPart' = [start |-> entry[1], end |-> entry[2], depth |-> entry[3] - 1,
                         i |-> entry[1], j |-> entry[2],
                         pivot |-> qsArr[RoundHalf(entry[1] + entry[2])]]
           /\ qsStack' = SubSeq(qsStack, 1, Len(qsStack) - 1)
           /\ qsPc' = "partition"
    /\ UNCHANGED <<qsInput, qsArr, qsShell, qsI, notSort>>

\* inplaceQuickSortPartition: one round of while (true) that ends in a swap
PartitionSwap ==
    /\ qsPc = "partition"
    /\ LET i == ScanUp(qsArr, qsPart.i, qsPart.pivot)
           j == ScanDown(qsArr, qsPart.j - 1, qsPart.pivot)
       IN  /\ i < j
           /\ qsArr' = swap(qsArr, i, j)
           /\ qsPart' = [qsPart EXCEPT !.i = i + 1, !.j = j]
    /\ UNCHANGED <<qsInput, qsStack, qsShell, qsPc, qsI, notSort>>

\* inplaceQuickSortPartition returns i, and the partitions longer than
\* SmallPartition are put on the stack
PartitionReturn ==
    /\ qsPc = "partition"
    /\ LET pivotNewIndex == ScanUp(qsArr, qsPart.i, qsPart.pivot)
           j == ScanDown(qsArr, qsPart.j - 1, qsPart.pivot)
       IN  /\ ~(pivotNewIndex < j)
           /\ qsStack' = qsStack
                  \o (IF qsPart.end - pivotNewIndex > SmallPartition
                      THEN << <<pivotNewIndex, qsPart.end, qsPart.depth>> >> ELSE <<>>)
                  \o (IF pivotNewIndex - qsPart.start > SmallPartition
                      THEN << <<qsPart.start, pivotNewIndex, qsPart.depth>> >> ELSE <<>>)
    /\ qsPc' = "loop"
    /\ UNCHANGED <<qsInput, qsArr, qsShell, qsPart, qsI, notSort>>

\* one round of the while loop with no depth left: shellSortBound is called
SortShell ==
    /\ qsPc = "loop"
    /\ qsStack # <<>>
    /\ LET entry == qsStack[Len(qsStack)]
       IN  /\ entry[3] = 0
           /\ qsShell' = [start |-> entry[1], end |-> entry[2],
                          inc |-> RoundHalf(entry[1] + entry[2]), i |-> 0]
           /\ qsStack' = SubSeq(qsStack, 1, Len(qsStack) - 1)
           /\ qsPc' = "shell"
    /\ UNCHANGED <<qsInput, qsArr, qsPart, qsI, notSort>>

\* shellSortBound: while (inc >= start) holds, the for loop starts
ShellWhile ==
    /\ qsPc = "shell"
    /\ qsShell.inc >= qsShell.start
    /\ qsShell' = [qsShell EXCEPT !.i = qsShell.inc]
    /\ qsPc' = "shell_for"
    /\ UNCHANGED <<qsInput, qsArr, qsStack, qsPart, qsI, notSort>>

\* shellSortBound: one round of the for loop
ShellFor ==
    /\ qsPc = "shell_for"
    /\ qsShell.i < qsShell.end
    /\ qsArr' = ShellDown(qsArr, qsShell.inc, qsShell.i, qsArr[qsShell.i])
    /\ qsShell' = [qsShell EXCEPT !.i = @ + 1]
    /\ UNCHANGED <<qsInput, qsStack, qsPc, qsPart, qsI, notSort>>

\* shellSortBound: the for loop is over, the next increment
ShellForEnd ==
    /\ qsPc = "shell_for"
    /\ ~(qsShell.i < qsShell.end)
    /\ qsShell' = [qsShell EXCEPT !.inc = RoundOver2_2(qsShell.inc)]
    /\ qsPc' = "shell"
    /\ UNCHANGED <<qsInput, qsArr, qsStack, qsPart, qsI, notSort>>

\* shellSortBound returns
ShellReturn ==
    /\ qsPc = "shell"
    /\ ~(qsShell.inc >= qsShell.start)
    /\ qsPc' = "loop"
    /\ UNCHANGED <<qsInput, qsArr, qsStack, qsShell, qsPart, qsI, notSort>>

\* the stack is empty: insertionSort is called
SortInsertion ==
    /\ qsPc = "loop"
    /\ qsStack = <<>>
    /\ qsI' = 1
    /\ qsPc' = "insertion"
    /\ UNCHANGED <<qsInput, qsArr, qsStack, qsShell, qsPart, notSort>>

\* insertionSort: one round of the for loop
InsertionFor ==
    /\ qsPc = "insertion"
    /\ qsI < Length(qsArr)
    /\ qsArr' = InsertDown(qsArr, qsI)
    /\ qsI' = qsI + 1
    /\ UNCHANGED <<qsInput, qsStack, qsShell, qsPart, qsPc, notSort>>

\* insertionSort is over and fastQuickSort returns the array
SortReturn ==
    /\ qsPc = "insertion"
    /\ ~(qsI < Length(qsArr))
    /\ qsPc' = "done"
    /\ UNCHANGED <<qsInput, qsArr, qsStack, qsShell, qsPart, qsI, notSort>>

NextSort ==
    \/ SortStart
    \/ SortPartition
    \/ PartitionSwap
    \/ PartitionReturn
    \/ SortShell
    \/ ShellWhile
    \/ ShellFor
    \/ ShellForEnd
    \/ ShellReturn
    \/ SortInsertion
    \/ InsertionFor
    \/ SortReturn

SpecSort == InitSort /\ [][NextSort]_vars
\* the sort goes on while it has a step to take
SpecSortLive == SpecSort /\ WF_vars(NextSort)

TimesInArray(arr, v) == Cardinality({i \in DOMAIN arr : arr[i] = v})
\* C32: the array fastQuickSort returns holds the elements of the input,
\* each as many times, in non-decreasing order of compareFn.
C32_SortedPermutation ==
    qsPc = "done" =>
        /\ DOMAIN qsArr = DOMAIN qsInput
        /\ \A i \in DOMAIN qsInput : TimesInArray(qsArr, qsInput[i]) = TimesInArray(qsInput, qsInput[i])
        /\ \A i, j \in DOMAIN qsArr : i < j => compareFn(qsArr[i], qsArr[j]) <= 0
\* an array longer than SmallPartition, not in order, has been sorted with a
\* partition put on the stack on the way
C32_Witness ==
    /\ qsPc = "done"
    /\ Length(qsInput) > SmallPartition
    /\ \E i, j \in DOMAIN qsInput : i < j /\ qsInput[i] > qsInput[j]
    /\ qsShell.end = 0

\* C33: fastQuickSort returns for every array, also when a partition has no
\* depth left and goes to shellSortBound.
C33_Terminates == <>(qsPc = "done")

(***************************************************************************)
(* SpecMonitor: the callbacks of a realtime query with one filter on one   *)
(* key, monitor { add, change, remove } and no snapshots                   *)
(***************************************************************************)
\* the notifications of a behaviour
MaxNotifications == 4
\* the callbacks waiting for their promise at one time
MaxPending == 2

notMonitor == <<lockVars, lkVars, ixVars, buildVars, arrayVars, ftVars, takeVars, queryVars, pointerVars, writeVars, cacheVars, batchVars, capVars, handleVars, ftWordVars, updateVars, expiryVars, leafVars, createVars, sortVars, sortLocalVars, getVars, builderVars>>

\* api.storage.test(value, '==', 'x'), the filter of the query
FilterTest(v) == v = "x"
removeMatch(matched, path) == matched \ {path}
addMatch(matched, path) == matched \cup {path}
Event(name, path) == [name |-> name, path |-> path, wasMatched |-> path \in mnMatched]

InitMonitor ==
    /\ lockState = InitLockState
    /\ lockQueue = <<>>
    /\ lkHolders = {}
    /\ lkGranted = {}
    /\ lkNext = 1
    /\ store = InitStore
    /\ tree = EmptyTree
    /\ cache = EmptyCache
    /\ proc = [p \in Procs |-> IdleProc]
    /\ updates = 0
    /\ failures = 0
    /\ bKey = [r \in SeqRange(BuildRecs) |-> NoKey]
    /\ buildFile = NoFile
    /\ runFiles = [n \in RunNrs |-> NoFile]
    /\ mergeFile = NoFile
    /\ indexFile = EmptyIndexFile
    /\ bmem = IdleBuild
    /\ crashes = 0
    /\ arrays = [r \in Recs |-> <<>>]
    /\ arrayUnique = FALSE
    /\ arrayResult = [asked |-> FALSE]
    /\ arrayUpdates = 0
    /\ ftTexts = [r \in SeqRange(FtRecs) |-> <<>>]
    /\ ftTree = EmptyFtTree
    /\ ftCache = EmptyFtCache
    /\ ftParsed = {}
    /\ ftResult = [asked |-> FALSE]
    /\ ftUpdates = 0
    /\ ftQueries = 0
    /\ takeLeaves = <<<<>>>>
    /\ takeResult = [asked |-> FALSE]
    /\ qVals = [n \in 1..MaxNodes |-> [a |-> 1, b |-> 1]]
    /\ qIndex = FALSE
    /\ qResult = [asked |-> FALSE]
    /\ rpInput = [path |-> <<65>>, wildcards |-> <<>>, key |-> <<65>>]
    /\ rpStored = <<>>
    /\ rpParsed = [done |-> FALSE]
    /\ wnInline = [k \in WriteKeys |-> NoProp]
    /\ wnRecords = [k \in WriteKeys |-> NoProp]
    /\ wnLast = [written |-> FALSE]
    /\ wnWrites = 0
    /\ cServed = [asked |-> FALSE]
    /\ btUpdate = [old |-> <<>>, new |-> <<>>, started |-> FALSE]
    /\ btBatches = <<>>
    /\ btLog = <<>>
    /\ btFailures = 0
    /\ maxValues = 2
    /\ idxOpen = 0
    /\ fdOpen = FALSE
    /\ hPc = [p \in Procs |-> "idle"]
    /\ hOps = 0
    /\ ftWordCache = {}
    /\ upIndex = [type |-> "normal", includeKeys |-> <<>>]
    /\ upStored = [null |-> TRUE, key |-> Null, inc |-> Null]
    /\ upLast = [called |-> FALSE]
    /\ exSliding = FALSE
    /\ exClock = 0
    /\ exEntry = [exists |-> FALSE]
    /\ exTimers = {}
    /\ exPc = [p \in Procs |-> "idle"]
    /\ exNext = 1
    /\ exRemoved = [removed |-> FALSE]
    /\ maxEntriesPerNode = 2
    /\ uniqueKeys = FALSE
    /\ treeLeaves = <<[entries |-> <<>>, low |-> 0, id |-> 1, prevLeaf |-> 0, nextLeaf |-> 0]>>
    /\ leafThrown = FALSE
    /\ crLength = 0
    /\ crMaxEntries = NotGiven
    /\ crFillFactor = 100
    /\ crLeaves = <<>>
    /\ crNodes = <<>>
    /\ crPc = "start"
    /\ qsInput = <<>>
    /\ qsArr = <<>>
    /\ qsStack = <<>>
    /\ qsShell = [start |-> 0, end |-> 0, inc |-> 0, i |-> 0]
    /\ qsPc = "start"
    /\ qsPart = [start |-> 0, end |-> 0, depth |-> 0, i |-> 0, j |-> 0, pivot |-> 0]
    /\ qsI = 0
    /\ mnStore \in [Recs -> Vals \cup {Null}]
    /\ mnMatched = {r \in Recs : FilterTest(mnStore[r])}
    /\ mnPending = {}
    /\ mnEvent = [name |-> "none"]
    /\ mnCalls = 0
    /\ gnParent = NoRecord
    /\ gnLast = [op |-> "none"]
    /\ buUnique = FALSE
    /\ buList = [k \in BuilderKeys |-> <<>>]
    /\ buThrown = FALSE

\* childAddedCallback(path, newValue)
ChildAdded(path, newValue) ==
    /\ mnCalls < MaxNotifications
    /\ mnStore[path] = Null
    /\ mnStore' = [mnStore EXCEPT ![path] = newValue]
    /\ mnCalls' = mnCalls + 1
    /\ IF FilterTest(newValue)
       THEN /\ mnMatched' = addMatch(mnMatched, path)
            /\ mnEvent' = Event("add", path)
       ELSE UNCHANGED <<mnMatched, mnEvent>>
    /\ UNCHANGED <<mnPending, notMonitor>>

\* childChangedCallback(path, newValue, oldValue): with a match of the new
\* value the rest is left to the promise; without one a path that was a
\* match is removed at once
ChildChanged(path, newValue) ==
    /\ mnCalls < MaxNotifications
    /\ mnStore[path] # Null
    /\ mnStore[path] # newValue
    /\ mnStore' = [mnStore EXCEPT ![path] = newValue]
    /\ mnCalls' = mnCalls + 1
    /\ LET wasMatch == path \in mnMatched
       IN  IF FilterTest(newValue)
           THEN /\ Cardinality(mnPending) < MaxPending
                /\ mnPending' = mnPending \cup {[path |-> path, wasMatch |-> wasMatch]}
                /\ UNCHANGED <<mnMatched, mnEvent>>
           ELSE IF wasMatch
           THEN /\ mnMatched' = removeMatch(mnMatched, path)
                /\ mnEvent' = Event("remove", path)
                /\ UNCHANGED mnPending
           ELSE UNCHANGED <<mnMatched, mnEvent, mnPending>>
    /\ UNCHANGED notMonitor

\* childChangedCallback: the promise has resolved with a match
ChildChangedThen(c) ==
    /\ c \in mnPending
    /\ mnPending' = mnPending \ {c}
    /\ mnMatched' = IF ~c.wasMatch THEN addMatch(mnMatched, c.path) ELSE mnMatched
    /\ mnEvent' = Event(IF c.wasMatch THEN "change" ELSE "add", c.path)
    /\ UNCHANGED <<mnStore, mnCalls, notMonitor>>

\* childRemovedCallback(path, oldValue)
ChildRemoved(path) ==
    /\ mnCalls < MaxNotifications
    /\ mnStore[path] # Null
    /\ mnStore' = [mnStore EXCEPT ![path] = Null]
    /\ mnCalls' = mnCalls + 1
    /\ mnMatched' = removeMatch(mnMatched, path)
    /\ mnEvent' = Event("remove", path)
    /\ UNCHANGED <<mnPending, notMonitor>>

NextMonitor ==
    \/ \E path \in Recs, newValue \in Vals : ChildAdded(path, newValue)
    \/ \E path \in Recs, newValue \in Vals : ChildChanged(path, newValue)
    \/ \E c \in mnPending : ChildChangedThen(c)
    \/ \E path \in Recs : ChildRemoved(path)

SpecMonitor == InitMonitor /\ [][NextMonitor]_vars

\* C34: a remove event is given only for a path that was in matchedPaths and
\* an add event only for a path that was not in it.
C34_EventsFollowMatches ==
    /\ mnEvent.name = "remove" => mnEvent.wasMatched
    /\ mnEvent.name = "add" => ~mnEvent.wasMatched

(***************************************************************************)
(* SpecGet: CustomStorage.getNode and getNodeInfo for a path without a     *)
(* record of its own                                                       *)
(***************************************************************************)
notGet == <<lockVars, lkVars, ixVars, buildVars, arrayVars, ftVars, takeVars, queryVars, pointerVars, writeVars, cacheVars, batchVars, capVars, handleVars, ftWordVars, updateVars, expiryVars, leafVars, createVars, sortVars, sortLocalVars, monitorVars, builderVars>>

\* the keys asked for: two plain keys and one that is also the name of a
\* property of a stored node
GetKeys == {"k1", "k2", "value"}
\* the properties of an ICustomStorageNode
NodeProps == {"type", "value", "revision", "revision_nr", "created", "modified"}
\* the parent records: none, a string, or an object with inline values
ParentRecords ==
    {NoRecord, [exists |-> TRUE, type |-> "string", value |-> "s1"]}
    \cup {[exists |-> TRUE, type |-> "object", value |-> v] :
              v \in [GetKeys -> SmallVals \cup {NoProp}]}
\* key in obj, for the value of an object node
InValue(key, value) == value[key] # NoProp
\* key in obj, for the stored node itself
InNode(key, node) == key \in NodeProps
\* _getTypeFromStoredValue(parentNode.value[key]); undefined is of no type
\* it knows and makes it throw
getTypeFromStoredValue(val) ==
    IF val = NoProp THEN [thrown |-> TRUE, value |-> Null]
    ELSE [thrown |-> FALSE, value |-> val]
NullValue == [thrown |-> FALSE, value |-> Null]

InitGet ==
    /\ lockState = InitLockState
    /\ lockQueue = <<>>
    /\ lkHolders = {}
    /\ lkGranted = {}
    /\ lkNext = 1
    /\ store = InitStore
    /\ tree = EmptyTree
    /\ cache = EmptyCache
    /\ proc = [p \in Procs |-> IdleProc]
    /\ updates = 0
    /\ failures = 0
    /\ bKey = [r \in SeqRange(BuildRecs) |-> NoKey]
    /\ buildFile = NoFile
    /\ runFiles = [n \in RunNrs |-> NoFile]
    /\ mergeFile = NoFile
    /\ indexFile = EmptyIndexFile
    /\ bmem = IdleBuild
    /\ crashes = 0
    /\ arrays = [r \in Recs |-> <<>>]
    /\ arrayUnique = FALSE
    /\ arrayResult = [asked |-> FALSE]
    /\ arrayUpdates = 0
    /\ ftTexts = [r \in SeqRange(FtRecs) |-> <<>>]
    /\ ftTree = EmptyFtTree
    /\ ftCache = EmptyFtCache
    /\ ftParsed = {}
    /\ ftResult = [asked |-> FALSE]
    /\ ftUpdates = 0
    /\ ftQueries = 0
    /\ takeLeaves = <<<<>>>>
    /\ takeResult = [asked |-> FALSE]
    /\ qVals = [n \in 1..MaxNodes |-> [a |-> 1, b |-> 1]]
    /\ qIndex = FALSE
    /\ qResult = [asked |-> FALSE]
    /\ rpInput = [path |-> <<65>>, wildcards |-> <<>>, key |-> <<65>>]
    /\ rpStored = <<>>
    /\ rpParsed = [done |-> FALSE]
    /\ wnInline = [k \in WriteKeys |-> NoProp]
    /\ wnRecords = [k \in WriteKeys |-> NoProp]
    /\ wnLast = [written |-> FALSE]
    /\ wnWrites = 0
    /\ cServed = [asked |-> FALSE]
    /\ btUpdate = [old |-> <<>>, new |-> <<>>, started |-> FALSE]
    /\ btBatches = <<>>
    /\ btLog = <<>>
    /\ btFailures = 0
    /\ maxValues = 2
    /\ idxOpen = 0
    /\ fdOpen = FALSE
    /\ hPc = [p \in Procs |-> "idle"]
    /\ hOps = 0
    /\ ftWordCache = {}
    /\ upIndex = [type |-> "normal", includeKeys |-> <<>>]
    /\ upStored = [null |-> TRUE, key |-> Null, inc |-> Null]
    /\ upLast = [called |-> FALSE]
    /\ exSliding = FALSE
    /\ exClock = 0
    /\ exEntry = [exists |-> FALSE]
    /\ exTimers = {}
    /\ exPc = [p \in Procs |-> "idle"]
    /\ exNext = 1
    /\ exRemoved = [removed |-> FALSE]
    /\ maxEntriesPerNode = 2
    /\ uniqueKeys = FALSE
    /\ treeLeaves = <<[entries |-> <<>>, low |-> 0, id |-> 1, prevLeaf |-> 0, nextLeaf |-> 0]>>
    /\ leafThrown = FALSE
    /\ crLength = 0
    /\ crMaxEntries = NotGiven
    /\ crFillFactor = 100
    /\ crLeaves = <<>>
    /\ crNodes = <<>>
    /\ crPc = "start"
    /\ qsInput = <<>>
    /\ qsArr = <<>>
    /\ qsStack = <<>>
    /\ qsShell = [start |-> 0, end |-> 0, inc |-> 0, i |-> 0]
    /\ qsPc = "start"
    /\ qsPart = [start |-> 0, end |-> 0, depth |-> 0, i |-> 0, j |-> 0, pivot |-> 0]
    /\ qsI = 0
    /\ mnStore = [r \in Recs |-> Null]
    /\ mnMatched = {}
    /\ mnPending = {}
    /\ mnEvent = [name |-> "none"]
    /\ mnCalls = 0
    /\ gnParent \in ParentRecords
    /\ gnLast = [op |-> "none"]
    /\ buUnique = FALSE
    /\ buList = [k \in BuilderKeys |-> <<>>]
    /\ buThrown = FALSE

\* getNode(path) where _readNode(path) gives null: the parent is looked up
GetNode(key) ==
    /\ gnLast' = [op |-> "getNode", key |-> key,
                  result |-> IF /\ gnParent.exists
                                /\ gnParent.type = "object"
                                /\ InNode(key, gnParent)
                             THEN getTypeFromStoredValue(gnParent.value[key])
                             ELSE NullValue]
    /\ UNCHANGED <<gnParent, notGet>>

\* getNodeInfo(path) where _readNode(path) gives null
GetNodeInfo(key) ==
    /\ gnLast' = [op |-> "getNodeInfo", key |-> key,
                  result |-> IF /\ gnParent.exists
                                /\ gnParent.type = "object"
                                /\ InValue(key, gnParent.value)
                             THEN [exists |-> TRUE, value |-> gnParent.value[key]]
                             ELSE [exists |-> FALSE, value |-> Null]]
    /\ UNCHANGED <<gnParent, notGet>>

NextGet ==
    \/ \E key \in GetKeys : GetNode(key)
    \/ \E key \in GetKeys : GetNodeInfo(key)

SpecGet == InitGet /\ [][NextGet]_vars

\* C35: getNode for a node stored inline in its parent record gives the
\* stored value, and a null value only when the parent has no such key.
C35_InlineValueReturned ==
    (gnLast.op = "getNode" /\ gnParent.exists /\ gnParent.type = "object") =>
        /\ ~gnLast.result.thrown
        /\ gnLast.result.value =
               IF InValue(gnLast.key, gnParent.value) THEN gnParent.value[gnLast.key]
               ELSE Null

(***************************************************************************)
(* SpecBuilder: BPlusTreeBuilder.add                                       *)
(***************************************************************************)
\* the most values added under one key
MaxBuilderValues == 3
\* the record pointers added
BuilderPointers == {"r1", "r2"}

notBuilder == <<lockVars, lkVars, ixVars, buildVars, arrayVars, ftVars, takeVars, queryVars, pointerVars, writeVars, cacheVars, batchVars, capVars, handleVars, ftWordVars, updateVars, expiryVars, leafVars, createVars, sortVars, sortLocalVars, monitorVars, getVars>>

\* existing.push(entryValue), or list.set(key, [entryValue]) for a new key
PushValue(existing, recordPointer) == Append(existing, recordPointer)

InitBuilder ==
    /\ lockState = InitLockState
    /\ lockQueue = <<>>
    /\ lkHolders = {}
    /\ lkGranted = {}
    /\ lkNext = 1
    /\ store = InitStore
    /\ tree = EmptyTree
    /\ cache = EmptyCache
    /\ proc = [p \in Procs |-> IdleProc]
    /\ updates = 0
    /\ failures = 0
    /\ bKey = [r \in SeqRange(BuildRecs) |-> NoKey]
    /\ buildFile = NoFile
    /\ runFiles = [n \in RunNrs |-> NoFile]
    /\ mergeFile = NoFile
    /\ indexFile = EmptyIndexFile
    /\ bmem = IdleBuild
    /\ crashes = 0
    /\ arrays = [r \in Recs |-> <<>>]
    /\ arrayUnique = FALSE
    /\ arrayResult = [asked |-> FALSE]
    /\ arrayUpdates = 0
    /\ ftTexts = [r \in SeqRange(FtRecs) |-> <<>>]
    /\ ftTree = EmptyFtTree
    /\ ftCache = EmptyFtCache
    /\ ftParsed = {}
    /\ ftResult = [asked |-> FALSE]
    /\ ftUpdates = 0
    /\ ftQueries = 0
    /\ takeLeaves = <<<<>>>>
    /\ takeResult = [asked |-> FALSE]
    /\ qVals = [n \in 1..MaxNodes |-> [a |-> 1, b |-> 1]]
    /\ qIndex = FALSE
    /\ qResult = [asked |-> FALSE]
    /\ rpInput = [path |-> <<65>>, wildcards |-> <<>>, key |-> <<65>>]
    /\ rpStored = <<>>
    /\ rpParsed = [done |-> FALSE]
    /\ wnInline = [k \in WriteKeys |-> NoProp]
    /\ wnRecords = [k \in WriteKeys |-> NoProp]
    /\ wnLast = [written |-> FALSE]
    /\ wnWrites = 0
    /\ cServed = [asked |-> FALSE]
    /\ btUpdate = [old |-> <<>>, new |-> <<>>, started |-> FALSE]
    /\ btBatches = <<>>
    /\ btLog = <<>>
    /\ btFailures = 0
    /\ maxValues = 2
    /\ idxOpen = 0
    /\ fdOpen = FALSE
    /\ hPc = [p \in Procs |-> "idle"]
    /\ hOps = 0
    /\ ftWordCache = {}
    /\ upIndex = [type |-> "normal", includeKeys |-> <<>>]
    /\ upStored = [null |-> TRUE, key |-> Null, inc |-> Null]
    /\ upLast = [called |-> FALSE]
    /\ exSliding = FALSE
    /\ exClock = 0
    /\ exEntry = [exists |-> FALSE]
    /\ exTimers = {}
    /\ exPc = [p \in Procs |-> "idle"]
    /\ exNext = 1
    /\ exRemoved = [removed |-> FALSE]
    /\ maxEntriesPerNode = 2
    /\ uniqueKeys = FALSE
    /\ treeLeaves = <<[entries |-> <<>>, low |-> 0, id |-> 1, prevLeaf |-> 0, nextLeaf |-> 0]>>
    /\ leafThrown = FALSE
    /\ crLength = 0
    /\ crMaxEntries = NotGiven
    /\ crFillFactor = 100
    /\ crLeaves = <<>>
    /\ crNodes = <<>>
    /\ crPc = "start"
    /\ qsInput = <<>>
    /\ qsArr = <<>>
    /\ qsStack = <<>>
    /\ qsShell = [start |-> 0, end |-> 0, inc |-> 0, i |-> 0]
    /\ qsPc = "start"
    /\ qsPart = [start |-> 0, end |-> 0, depth |-> 0, i |-> 0, j |-> 0, pivot |-> 0]
    /\ qsI = 0
    /\ mnStore = [r \in Recs |-> Null]
    /\ mnMatched = {}
    /\ mnPending = {}
    /\ mnEvent = [name |-> "none"]
    /\ mnCalls = 0
    /\ gnParent = NoRecord
    /\ gnLast = [op |-> "none"]
    /\ buUnique \in BOOLEAN
    /\ buList = [k \in BuilderKeys |-> <<>>]
    /\ buThrown = FALSE

\* add(key, recordPointer): throws for a key that is there if the keys are
\* unique, else one more value under the key
BuilderAdd(key, recordPointer) ==
    /\ Len(buList[key]) < MaxBuilderValues
    /\ IF buUnique /\ buList[key] # <<>>
       THEN /\ buThrown' = TRUE
            /\ UNCHANGED buList
       ELSE /\ buThrown' = FALSE
            /\ buList' = [buList EXCEPT ![key] = PushValue(@, recordPointer)]
    /\ UNCHANGED <<buUnique, notBuilder>>

NextBuilder ==
    \E key \in BuilderKeys, recordPointer \in BuilderPointers : BuilderAdd(key, recordPointer)

SpecBuilder == InitBuilder /\ [][NextBuilder]_vars

\* C37: without unique keys the record pointers of the values of one entry
\* are pairwise distinct after any sequence of adds, also when a pair of key
\* and record pointer is added again.
C37_PointersDistinct ==
    ~buUnique =>
        \A key \in BuilderKeys : \A i, j \in 1..Len(buList[key]) :
            i # j => buList[key][i] # buList[key][j]

\* the leaf with the number id
LeafOf(id) == CHOOSE leaf \in SeqRange(treeLeaves) : leaf.id = id
\* the leaf reached from the first leaf by n steps along nextLeaf
RECURSIVE LeafAfter(_)
LeafAfter(n) == IF n = 0 THEN treeLeaves[1] ELSE LeafOf(LeafAfter(n - 1).nextLeaf)

\* C38: after any sequence of adds and splits, the nextLeaf of the prevLeaf
\* of a leaf and the prevLeaf of its nextLeaf are the leaf itself, and the
\* nextLeaf pointers lead from the first leaf through every leaf once, in
\* the order of the keys, to the last.
C38_ChainLinked ==
    /\ \A x \in 1..Len(treeLeaves) :
           LET leaf == treeLeaves[x]
           IN  /\ leaf.nextLeaf # 0 => LeafOf(leaf.nextLeaf).prevLeaf = leaf.id
               /\ leaf.prevLeaf # 0 => LeafOf(leaf.prevLeaf).nextLeaf = leaf.id
               /\ leaf.prevLeaf = IF x = 1 THEN 0 ELSE treeLeaves[x - 1].id
               /\ leaf.nextLeaf = IF x = Len(treeLeaves) THEN 0 ELSE treeLeaves[x + 1].id
    /\ \A x \in 1..Len(treeLeaves) : LeafAfter(x - 1) = treeLeaves[x]
\* a leaf in the middle of the chain has been split
C38_Witness ==
    /\ Len(treeLeaves) >= 4
    /\ \E x \in 2..(Len(treeLeaves) - 1) :
           /\ treeLeaves[x].id > treeLeaves[x + 1].id
           /\ treeLeaves[x].id > treeLeaves[x - 1].id

====
